---------------------------- MODULE Spec2Model ----------------------------
(***************************************************************************)
(* CipherX: classical-cipher cryptanalysis engine (backend/utils).         *)
(*                                                                         *)
(* Characters are Unicode code points (integers), texts are sequences of   *)
(* code points.  Scores are integers in units of 1e-4 (the code rounds     *)
(* every score to 4 decimal places).                                       *)
(***************************************************************************)
EXTENDS Integers, Sequences, FiniteSets, TLC

VARIABLES
    plaintext,   \* the text drawn as input
    key,         \* the key in use: <<shift>>, <<a, b>>, key letters, mapping string
    ciphertext,  \* the text the decryption or the detector is given
    decrypted,   \* the text a decryption returned
    op,          \* the operation that produced this state
    lexicon,     \* the Lexicon / language-model snapshot the scorers query
    top_n,       \* the top_n argument of the detector call
    results,     \* the candidate list a detector returned
    raised,      \* the exception a call raised ("" when it returned)
    faults,      \* auto_detect: the detectors whose collaborators raise
    pending,     \* auto_detect: the detectors the loop has still to run
    calls,       \* auto_detect: the detector calls made, with their outcomes
    warnings,    \* auto_detect: the detectors safe_detect reported as failed
    combined_results,  \* auto_detect: the merged candidate list
    best_cipher, \* auto_detect: best_cipher of the returned dict
    overruns,    \* auto_detect: the detectors safe_detect reported as over 10 s
    slow,        \* the detectors whose call takes more than 10 s
    fluency,     \* the state of the GPT-2 fluency scorer: "up", "flaky", "down"
    cipher_type, \* decrypt: the cipher_type of the request
    response,    \* decrypt: the HTTP response
    sa,          \* simulated_annealing: the locals of the run
    ds,          \* detect_substitution: the locals of the call
    dv           \* detect_vigenere / likely_key_lengths: the locals of the call

cvars == <<plaintext, key, ciphertext, decrypted, op>>
dvars == <<lexicon, top_n, results, raised>>
evars == <<faults, pending, calls, warnings, combined_results, best_cipher, overruns>>
xvars == <<slow, fluency, cipher_type, response, sa, ds, dv>>
vars == <<plaintext, key, ciphertext, decrypted, op, lexicon, top_n, results, raised,
          faults, pending, calls, warnings, combined_results, best_cipher, overruns,
          slow, fluency, cipher_type, response, sa, ds, dv>>

(***************************************************************************)
(* Bounds of the model.                                                    *)
(***************************************************************************)
\* longest text given to the Caesar / Atbash / Affine / mapping transforms
MaxLen == 2
\* longest text given to the Vigenere transforms
MaxVigLen == 3
\* longest Vigenere key
MaxKeyLen == 2
\* longest ciphertext given to the detectors
MaxDetLen == 4

(***************************************************************************)
(* Characters.  The sample holds upper and lower case letters of the       *)
(* 26-letter alphabet, a space, a digit, and two non-ASCII characters for  *)
(* which Python's str.isalpha() is true: U+00AA (feminine ordinal, lower)  *)
(* and U+00E9 (e acute, lower); U+00C9 (E acute, upper) is what            *)
(* str.upper() makes of U+00E9.                                            *)
(***************************************************************************)
\* the value of an expression, computed once: the element of a singleton
The(S) == CHOOSE x \in S : TRUE

ordA == 65
orda == 97

UpperLetters == 65..90
LowerLetters == 97..122
Letters == UpperLetters \cup LowerLetters

\* str.isalpha / str.isupper / str.islower / str.upper / str.lower on the
\* code points the model uses (170 = U+00AA, 201 = U+00C9, 233 = U+00E9)
isalpha(ch) == ch \in Letters \cup {170, 201, 233}
isupper(ch) == ch \in UpperLetters \cup {201}
islower(ch) == ch \in LowerLetters \cup {170, 233}
upper(ch) == IF ch \in LowerLetters THEN ch - 32
             ELSE IF ch = 233 THEN 201 ELSE ch
lower(ch) == IF ch \in UpperLetters THEN ch + 32
             ELSE IF ch = 201 THEN 233 ELSE ch

\* chr() raises ValueError for an argument outside range(0x110000); a
\* transform that raises yields this value instead of a text
ValueError == <<-1>>

\* 'A' 'M' 'Z' 'a' 'z' ' ' '7' U+00AA U+00E9
CipherChars == {65, 77, 90, 97, 122, 32, 55, 170, 233}
\* 'A' 'y' ' '
VigChars == {65, 121, 32}
\* 'A' 'B' 'Z' 'c'
KeyChars == {65, 66, 90, 99}

TextsOver(chars, n) == UNION {[1..k -> chars] : k \in 0..n}

CipherTexts == TextsOver(CipherChars, MaxLen)
VigTexts == TextsOver(VigChars, MaxVigLen)
VigKeys == TextsOver(KeyChars, MaxKeyLen) \ {<<>>}
\* 'K' ' '
DetChars == {75, 32}
DetTexts == TextsOver(DetChars, MaxDetLen)

(***************************************************************************)
(* Caesar (caesar.py)                                                      *)
(***************************************************************************)
caesar_encrypt(plain, shift) ==
    [i \in 1..Len(plain) |->
        LET char == plain[i] IN
        IF isalpha(char)
        THEN LET base == IF isupper(char) THEN ordA ELSE orda
             IN  ((char - base + shift) % 26) + base
        ELSE char]

caesar_decrypt_forward(cipher, shift) == caesar_encrypt(cipher, shift)

caesar_decrypt(cipher, shift) ==
    [i \in 1..Len(cipher) |->
        LET char == cipher[i] IN
        IF isalpha(char)
        THEN LET base == IF isupper(char) THEN ordA ELSE orda
             IN  ((char - base - shift) % 26) + base
        ELSE char]

(***************************************************************************)
(* Atbash (atbash.py)                                                      *)
(***************************************************************************)
atbash_char(ch) ==
    IF isalpha(ch)
    THEN LET base == IF isupper(ch) THEN ordA ELSE orda
         IN  base + (25 - (ch - base))
    ELSE ch

atbash_decrypt(cipher) ==
    IF \E i \in 1..Len(cipher) : atbash_char(cipher[i]) < 0
    THEN ValueError
    ELSE [i \in 1..Len(cipher) |-> atbash_char(cipher[i])]

(***************************************************************************)
(* Affine (affine.py)                                                      *)
(***************************************************************************)
\* mod_inv returns None when no inverse exists
None == -1

RECURSIVE gcd(_, _)
gcd(a, b) == IF b # 0 THEN gcd(b, a % b) ELSE a

RECURSIVE mod_inv_from(_, _, _)
mod_inv_from(a, m, x) ==
    IF x >= m THEN None
    ELSE IF (a * x) % m = 1 THEN x
    ELSE mod_inv_from(a, m, x + 1)

mod_inv_first(a, m) == 1

mod_inv(a, m) == mod_inv_from(a % m, m, 1)

\* alphabet = "ABCDEFGHIJKLMNOPQRSTUVWXYZ"; alphabet.index(c) = c - ord('A')
AlphabetSize == 26
in_alphabet(ch) == ch \in UpperLetters

affine_decrypt_unchecked(cipher, a, b) ==
    LET m == AlphabetSize
        a_inv == mod_inv(a, m)
    IN  [i \in 1..Len(cipher) |->
            LET ch == cipher[i] IN
            IF in_alphabet(upper(ch))
            THEN LET x == upper(ch) - ordA
                     dec == ordA + ((a_inv * (x - b)) % m)
                 IN  IF islower(ch) THEN lower(dec) ELSE dec
            ELSE ch]

affine_decrypt(cipher, a, b) ==
    LET m == AlphabetSize
        a_inv == mod_inv(a, m)
    IN  IF a_inv = None
        THEN <<>>
        ELSE [i \in 1..Len(cipher) |->
                LET ch == cipher[i] IN
                IF in_alphabet(upper(ch))
                THEN LET x == upper(ch) - ordA
                         dec == ordA + ((a_inv * (x - b)) % m)
                     IN  IF islower(ch) THEN lower(dec) ELSE dec
                ELSE ch]

\* valid_a = [a for a in range(1, m) if gcd(a, m) == 1]
valid_a == {a \in 1..(AlphabetSize - 1) : gcd(a, AlphabetSize) = 1}

\* The encryption E(x) = (a*x + b) mod 26 that affine_decrypt inverts; the
\* repository holds only its result for one sample ("RCLLA OAPLX").
affine_encrypt(plain, a, b) ==
    [i \in 1..Len(plain) |->
        LET ch == plain[i] IN
        IF in_alphabet(upper(ch))
        THEN LET p == upper(ch) - ordA
                 enc == ordA + ((a * p + b) % AlphabetSize)
             IN  IF islower(ch) THEN lower(enc) ELSE enc
        ELSE ch]

(***************************************************************************)
(* Vigenere (vigenere.py)                                                  *)
(***************************************************************************)
str_upper(text) == [i \in 1..Len(text) |-> upper(text[i])]

RECURSIVE vigenere_decrypt_loop(_, _, _, _)
vigenere_decrypt_loop(cipher, ukey, i, key_index) ==
    IF i > Len(cipher) THEN <<>>
    ELSE LET ch == cipher[i] IN
         IF isalpha(ch)
         THEN LET base == IF isupper(ch) THEN ordA ELSE orda
                  shift == ukey[(key_index % Len(ukey)) + 1] - ordA
              IN  <<((ch - base - shift) % 26) + base>>
                    \o vigenere_decrypt_loop(cipher, ukey, i + 1, key_index + 1)
         ELSE <<ch>> \o vigenere_decrypt_loop(cipher, ukey, i + 1, key_index)

\* a decryption that advances the key index on every character
RECURSIVE vigenere_decrypt_every(_, _, _)
vigenere_decrypt_every(cipher, ukey, i) ==
    IF i > Len(cipher) THEN <<>>
    ELSE LET ch == cipher[i] IN
         IF isalpha(ch)
         THEN LET base == IF isupper(ch) THEN ordA ELSE orda
                  shift == ukey[((i - 1) % Len(ukey)) + 1] - ordA
              IN  <<((ch - base - shift) % 26) + base>>
                    \o vigenere_decrypt_every(cipher, ukey, i + 1)
         ELSE <<ch>> \o vigenere_decrypt_every(cipher, ukey, i + 1)

vigenere_decrypt_allchars(cipher, k) ==
    vigenere_decrypt_every(cipher, str_upper(k), 1)

vigenere_decrypt(cipher, k) ==
    vigenere_decrypt_loop(cipher, str_upper(k), 1, 0)

\* demo.encrypt
RECURSIVE vigenere_encrypt_loop(_, _, _, _)
vigenere_encrypt_loop(text, k, i, ki) ==
    IF i > Len(text) THEN <<>>
    ELSE LET ch == text[i] IN
         IF isalpha(ch)
         THEN LET base == IF isupper(ch) THEN ordA ELSE orda
                  shift == upper(k[(ki % Len(k)) + 1]) - ordA
              IN  <<((ch - base + shift) % 26) + base>>
                    \o vigenere_encrypt_loop(text, k, i + 1, ki + 1)
         ELSE <<ch>> \o vigenere_encrypt_loop(text, k, i + 1, ki)

vigenere_encrypt(text, k) == vigenere_encrypt_loop(text, k, 1, 0)

(***************************************************************************)
(* Substitution mapping (substitution.py)                                  *)
(***************************************************************************)
QuestionMark == 63

\* a mapping is a dict from ciphertext letters to plaintext letters: a
\* function whose domain is a set of upper-case letters
mapping_get(mapping, ch) ==
    IF ch \in DOMAIN mapping THEN mapping[ch] ELSE QuestionMark

apply_mapping_to_text(text, mapping) ==
    The({ [i \in 1..Len(utext) |->
            IF isalpha(utext[i]) THEN mapping_get(m, utext[i])
            ELSE utext[i]] : utext \in {str_upper(text)}, m \in {mapping} })

\* ''.join([m.get(ch, '?') for ch in ALPHABET])
mapping_string(mapping) ==
    [i \in 1..AlphabetSize |-> mapping_get(mapping, ordA + i - 1)]

\* the keys tried: the identity, the mirror, a rotation by three
SampleMappings ==
    { [c \in UpperLetters |-> c],
      [c \in UpperLetters |-> 155 - c],
      [c \in UpperLetters |-> ordA + ((c - ordA + 3) % 26)] }

(***************************************************************************)
(* Scoring (english_scorer.py).  The word list, the word-frequency table,  *)
(* the language identifier and the GPT-2 model are external: what they     *)
(* answer is fixed by the snapshot `lexicon`, so that every scorer is a    *)
(* deterministic function of its text.  What the code itself decides (the  *)
(* cleaning, the zero score of an empty text, the length threshold of the  *)
(* fluency score, the arithmetic on scores) is modelled as written.        *)
(***************************************************************************)
iswhitespace(ch) == ch = 32

RECURSIVE collapse_whitespace(_, _)
collapse_whitespace(s, i) ==
    IF i > Len(s) THEN <<>>
    ELSE IF iswhitespace(s[i]) /\ (i = 1 \/ iswhitespace(s[i - 1]))
         THEN collapse_whitespace(s, i + 1)
         ELSE <<s[i]>> \o collapse_whitespace(s, i + 1)

\* re.sub(r"[^A-Za-z\s]", " ", text), re.sub(r"\s+", " ", ...), .strip()
clean_text(text) ==
    The({ IF Len(t) > 0 /\ iswhitespace(t[Len(t)])
          THEN SubSeq(t, 1, Len(t) - 1) ELSE t :
          t \in { collapse_whitespace(spaced, 1) :
                  spaced \in { [i \in 1..Len(txt) |->
                                  IF txt[i] \in Letters \/ iswhitespace(txt[i])
                                  THEN txt[i] ELSE 32] : txt \in {text} } } })

\* str.strip() leaves a non-empty string
strip_nonempty(text) == \E i \in 1..Len(text) : ~iswhitespace(text[i])

RECURSIVE TextSum(_, _, _)
TextSum(t, salt, i) ==
    IF i > Len(t) THEN 0 ELSE t[i] * (i + salt) + TextSum(t, salt, i + 1)

\* what the external collaborators answer for a text under a snapshot
ExternalAnswer(t, salt, levels) ==
    levels[(TextSum(t, lexicon + salt, 1) % Len(levels)) + 1]

\* scores a text can get, in units of 1e-4
ScoreLevels == <<0, 500, 501, 2300, 3400>>
\* fluency a text can get, in units of 1e-4
FluencyLevels == <<0, 2500, 5000>>

\* cheap_score / hybrid_score, rounded to 4 places
hybrid_score(text) ==
    The({ IF t = <<>> THEN 0 ELSE ExternalAnswer(t, 0, ScoreLevels) :
          t \in {clean_text(text)} })

\* the GPT-2 call of transformer_score raises for this text: always when
\* the model is down, for some texts when it is flaky
gpt2_fails(t) ==
    \/ fluency = "down"
    \/ fluency = "flaky" /\ TextSum(t, 11, 1) % 2 = 0

\* transformer_score with a failure counted against the candidate
transformer_score_penalised(text) ==
    LET t == clean_text(text)
    IN  IF Len(t) < 4 THEN 0
        ELSE IF gpt2_fails(t) THEN -10000
        ELSE ExternalAnswer(t, 3, FluencyLevels)

\* transformer_score: 0 for a cleaned text of fewer than 4 characters, and 0
\* when the GPT-2 call raises (except Exception)
transformer_score(text) ==
    LET t == clean_text(text)
    IN  IF Len(t) < 4 THEN 0
        ELSE IF gpt2_fails(t) THEN 0
        ELSE ExternalAnswer(t, 3, FluencyLevels)

(***************************************************************************)
(* Lists                                                                   *)
(***************************************************************************)
Max(S) == CHOOSE x \in S : \A y \in S : y <= x
Min(S) == CHOOSE x \in S : \A y \in S : x <= y

\* seq[:n]
Take(seq, n) == SubSeq(seq, 1, IF n < Len(seq) THEN n ELSE Len(seq))
\* seq[n:]
Drop(seq, n) == SubSeq(seq, n + 1, Len(seq))

\* the list left in the order it had
sort_desc_unsorted(seq, keys) == seq

\* list.sort(key=..., reverse=True) / sorted(..., reverse=True) over the
\* keys of the elements: stable, so
\* elements of equal key keep their order
sort_desc(seq, keys) ==
    The({ LET RECURSIVE from(_)
              from(ks) ==
                  IF ks = {} THEN <<>>
                  ELSE LET mx == Max(ks)
                           at == SelectSeq([i \in 1..Len(s) |-> i], LAMBDA i : k[i] = mx)
                       IN  [j \in 1..Len(at) |-> s[at[j]]] \o from(ks \ {mx})
          IN  from({k[i] : i \in 1..Len(s)}) :
          s \in {seq}, k \in {keys} })

\* the sort key of each element: lambda x: x[field]
keys_of(seq, field) == [i \in 1..Len(seq) |-> seq[i][field]]

\* refine_with_transformer
refine_with_transformer(candidates, top_k) ==
    IF candidates = <<>> THEN <<>>
    ELSE The({ sort_desc(refined, keys_of(refined, "final_score")) :
               refined \in {
                 [i \in 1..Len(sorted) |->
                    The({ ("ai" :> ai_score)
                            @@ ("final_score" :> sorted[i].score + (6 * ai_score) \div 10)
                            @@ sorted[i] :
                          ai_score \in {IF i <= top_k
                                        THEN transformer_score(sorted[i].text)
                                        ELSE 0} })] :
                 sorted \in {sort_desc(candidates, keys_of(candidates, "score"))} } })

(***************************************************************************)
(* Caesar detector (caesar.py)                                             *)
(***************************************************************************)
\* the first n candidates in enumeration order, never ranked
detect_caesar_unranked(cipher, n) ==
    Take([i \in 1..26 |->
            LET shift == i - 1
                decrypted_ == caesar_decrypt(cipher, shift)
            IN  [shift |-> shift, text |-> decrypted_,
                 score |-> hybrid_score(decrypted_)]], n)

detect_caesar(cipher, n) ==
    LET results_ == [i \in 1..26 |->
            LET shift == i - 1
                decrypted_ == caesar_decrypt(cipher, shift)
            IN  [shift |-> shift, text |-> decrypted_,
                 score |-> hybrid_score(decrypted_)]]
    IN  Take(sort_desc(results_, keys_of(results_, "score")), n)

(***************************************************************************)
(* Atbash detector (atbash.py)                                             *)
(***************************************************************************)
\* scores of atbash.english_score, in units of 0.01
AtbashLevels == <<0, 330, 1420>>

\* atbash.english_score: 0 when text.split() is empty
atbash_english_score(text) ==
    IF ~strip_nonempty(text) THEN 0 ELSE ExternalAnswer(text, 5, AtbashLevels)

\* the outcome of a call: the value it returned, or the exception it raised
Return(v) == [exc |-> "", value |-> v]
Raise(e) == [exc |-> e, value |-> <<>>]

\* atbash_decrypt raising makes detect_atbash raise
detect_atbash(cipher) ==
    LET text == atbash_decrypt(cipher)
    IN  IF text = ValueError THEN Raise("ValueError")
        ELSE Return(<<[cipher |-> "Atbash Cipher", text |-> text,
                       score |-> atbash_english_score(text)]>>)

(***************************************************************************)
(* Affine detector (affine.py)                                             *)
(***************************************************************************)
NoiseFloor == 500
ShortlistSize == 80
AffineTopK == 10

RECURSIVE sorted_seq(_)
sorted_seq(S) == IF S = {} THEN <<>> ELSE <<Min(S)>> \o sorted_seq(S \ {Min(S)})

valid_a_list == sorted_seq(valid_a)

\* the (a, b) pairs of a loop over b that stops one short: 300 pairs
affine_keys_short ==
    [i \in 1..(Len(valid_a_list) * (AlphabetSize - 1)) |->
        <<valid_a_list[((i - 1) \div (AlphabetSize - 1)) + 1], (i - 1) % (AlphabetSize - 1)>>]

\* the (a, b) pairs in the order of the two nested loops
affine_keys ==
    [i \in 1..(Len(valid_a_list) * AlphabetSize) |->
        <<valid_a_list[((i - 1) \div AlphabetSize) + 1], (i - 1) % AlphabetSize>>]

detect_affine(cipher, n, refine) ==
    LET scored == [i \in 1..Len(affine_keys) |->
            LET decrypted_ == affine_decrypt(cipher, affine_keys[i][1], affine_keys[i][2])
            IN  [a |-> affine_keys[i][1], b |-> affine_keys[i][2], text |-> decrypted_,
                 score |-> hybrid_score(decrypted_)]]
        results_ == SelectSeq(scored,
                        LAMBDA r : strip_nonempty(r.text) /\ ~(r.score <= NoiseFloor))
        shortlist == Take(sort_desc(results_, keys_of(results_, "score")), ShortlistSize)
        refined == IF refine THEN refine_with_transformer(shortlist, AffineTopK)
                   ELSE shortlist
        key_of(r) == IF "final_score" \in DOMAIN r THEN r.final_score ELSE r.score
        top == Take(sort_desc(refined, [i \in 1..Len(refined) |-> key_of(refined[i])]), n)
    IN  [i \in 1..Len(top) |->
            [a |-> top[i].a, b |-> top[i].b, score |-> key_of(top[i]),
             text |-> top[i].text]]

(***************************************************************************)
(* Vigenere detector (vigenere.py)                                         *)
(***************************************************************************)
clean_letters(text) == str_upper(SelectSeq(text, isalpha))

RECURSIVE SeqSum(_, _)
SeqSum(seq, i) == IF i > Len(seq) THEN 0 ELSE seq[i] + SeqSum(seq, i + 1)

Range(seq) == {seq[i] : i \in 1..Len(seq)}
Count(seq, x) == Cardinality({i \in 1..Len(seq) : seq[i] = x})

\* Rationals are kept exact as integers over a common denominator: an index
\* of coincidence is carried times ICScale (a multiple of n*(n-1) for every
\* n <= 10), an average over m columns times ICScale * ICScale.
ICScale == 2520

\* index_of_coincidence(text) * ICScale; the sum of f*(f-1) over the
\* letters of the text is the sum of (f(text[i]) - 1) over its positions
index_of_coincidence(text_) ==
    LET text == clean_letters(text_)
        n == Len(text)
        pairs == [i \in 1..n |-> Count(text, text[i]) - 1]
    IN  IF n < 2 THEN 0
        ELSE (SeqSum(pairs, 1) * ICScale) \div (n * (n - 1))

\* text[i::m]
Column(text, i, m) ==
    LET cnt == IF Len(text) <= i THEN 0 ELSE ((Len(text) - 1 - i) \div m) + 1
    IN  [j \in 1..cnt |-> text[i + 1 + (j - 1) * m]]

Columns(text, m) == [i \in 1..m |-> Column(text, i - 1, m)]

\* the spacings one repeated substring contributes: the distances between
\* its consecutive occurrences
spacings_of(text, L, i) ==
    LET occ == {j \in i..(Len(text) - L + 1) :
                    SubSeq(text, j, j + L - 1) = SubSeq(text, i, i + L - 1)}
        poslist == sorted_seq(occ)
    IN  [k \in 1..(Len(poslist) - 1) |-> poslist[k + 1] - poslist[k]]

first_occurrence(text, L, i) ==
    \A j \in 1..(i - 1) : SubSeq(text, j, j + L - 1) # SubSeq(text, i, i + L - 1)

RECURSIVE spacings_for_length(_, _, _)
spacings_for_length(text, L, i) ==
    IF i > Len(text) - L + 1 THEN <<>>
    ELSE (IF first_occurrence(text, L, i) THEN spacings_of(text, L, i) ELSE <<>>)
            \o spacings_for_length(text, L, i + 1)

RECURSIVE kasiski_from(_, _, _)
kasiski_from(text, L, max_len) ==
    IF L > max_len THEN <<>>
    ELSE spacings_for_length(text, L, 1) \o kasiski_from(text, L + 1, max_len)

kasiski_spacings(cipher, min_len, max_len) ==
    kasiski_from(clean_letters(cipher), min_len, max_len)

\* ic_key_length_candidates
ic_key_length_candidates(cipher, max_len) ==
    LET text == clean_letters(cipher)
        scores == [m \in 1..max_len |->
            LET cols == Columns(text, m)
                ics == [i \in 1..m |-> index_of_coincidence(cols[i])]
            IN  <<m, SeqSum(ics, 1) * (ICScale \div m)>>]
        ranked == Take(sort_desc(scores, keys_of(scores, 2)), 5)
    IN  [i \in 1..Len(ranked) |-> ranked[i][1]]

\* the keys of gcd_counts in insertion order
RECURSIVE gcd_keys(_, _, _, _)
gcd_keys(spacings, max_len, i, seen) ==
    IF i > Len(spacings) THEN seen
    ELSE LET RECURSIVE add(_, _)
             add(g, acc) ==
                IF g > max_len THEN acc
                ELSE IF spacings[i] % g = 0 /\ g \notin Range(acc)
                     THEN add(g + 1, Append(acc, g))
                     ELSE add(g + 1, acc)
         IN  The({ gcd_keys(spacings, max_len, i + 1, acc) : acc \in {add(2, seen)} })

\* likely_key_lengths without the Kasiski votes
likely_key_lengths_ic_only(cipher, max_len) ==
    ic_key_length_candidates(cipher, max_len)

\* likely_key_lengths
likely_key_lengths(cipher, max_len) ==
    LET spacings == kasiski_spacings(cipher, 3, 5)
        keys == gcd_keys(spacings, max_len, 1, <<>>)
        gcd_counts == [i \in 1..Len(keys) |->
            <<keys[i], Cardinality({k \in 1..Len(spacings) : spacings[k] % keys[i] = 0})>>]
        candidates == sort_desc(gcd_counts, keys_of(gcd_counts, 2))
    IN  IF spacings # <<>> /\ candidates # <<>>
        THEN [i \in 1..Len(Take(candidates, 5)) |-> candidates[i][1]]
        ELSE ic_key_length_candidates(cipher, max_len)

\* EN_FREQ, in units of 1e-5, for 'A'..'Z'
EN_FREQ ==
    << 8167, 1492, 2782, 4253, 12702, 2228, 2015, 6094, 6966, 153, 772, 4025,
       2406, 6749, 7507, 1929, 95, 5987, 6327, 9056, 2758, 978, 2360, 150,
       1974, 74 >>

\* chi_squared_for_shift orders the shifts of one non-empty column of N
\* letters: chi2 = sum (c - pN)^2 / (pN) = (1/N) * sum c^2/p - N, so the
\* order is that of sum c^2/p, carried here times 1e4 (the 1e-9 added to
\* the denominators is below the resolution).  An empty column gives the
\* same value (inf) for every shift.
chi_squared_for_shift(column, shift) ==
    IF column = <<>> THEN 0
    ELSE LET shifted == [i \in 1..Len(column) |-> ((column[i] - ordA - shift) % 26) + 1]
             terms == [i \in 1..Len(shifted) |->
                 Count(shifted, shifted[i]) * (1000000000 \div EN_FREQ[shifted[i]])]
         IN  SeqSum(terms, 1)

\* min(range(26), key=...): the first shift of least chi-squared
best_shift(col) ==
    LET least == Min({chi_squared_for_shift(col, s) : s \in 0..25})
    IN  Min({s \in 0..25 : chi_squared_for_shift(col, s) = least})

best_shifts_for_length(cipher, m) ==
    LET cols == Columns(clean_letters(cipher), m)
    IN  [i \in 1..m |-> best_shift(cols[i])]

shifts_to_key(shifts) == [i \in 1..Len(shifts) |-> shifts[i] + ordA]

\* the candidates of one key length: every rotation of its shifts
rotations(cipher, m) ==
    LET shifts == best_shifts_for_length(cipher, m)
    IN  [offset \in 1..m |->
            LET rotated == Drop(shifts, offset - 1) \o Take(shifts, offset - 1)
                k == shifts_to_key(rotated)
                dec == vigenere_decrypt(cipher, k)
            IN  [key |-> k, text |-> dec, score |-> hybrid_score(dec)]]

RECURSIVE concat_rotations(_, _, _)
concat_rotations(cipher, lengths, i) ==
    IF i > Len(lengths) THEN <<>>
    ELSE rotations(cipher, lengths[i]) \o concat_rotations(cipher, lengths, i + 1)

\* the key with letter i moved by delta
tweak(k, i, delta) ==
    [j \in 1..Len(k) |-> IF j = i THEN ((k[j] - ordA + delta) % 26) + ordA ELSE k[j]]

\* the trial keys of the local refinement, in the order of the two loops
trial_keys(k) ==
    [t \in 1..(2 * Len(k)) |-> tweak(k, ((t - 1) \div 2) + 1, IF t % 2 = 1 THEN -1 ELSE 1)]

RECURSIVE refine_loop(_, _, _, _, _)
refine_loop(cipher, trials, t, best_key, best_score) ==
    IF t > Len(trials) THEN <<best_key, best_score>>
    ELSE LET s == hybrid_score(vigenere_decrypt(cipher, trials[t]))
         IN  IF s > best_score
             THEN refine_loop(cipher, trials, t + 1, trials[t], s)
             ELSE refine_loop(cipher, trials, t + 1, best_key, best_score)

\* local refinement of one candidate
refine_candidate(cipher, r) ==
    LET best == refine_loop(cipher, trial_keys(r.key), 1, r.key, r.score)
    IN  [key |-> best[1], text |-> vigenere_decrypt(cipher, best[1]), score |-> best[2]]

VigenereTopK == 5

detect_vigenere(cipher, max_key_len, n) ==
    LET lengths == likely_key_lengths(cipher, max_key_len)
        results_ == concat_rotations(cipher, lengths, 1)
        refined_results == [i \in 1..Len(results_) |-> refine_candidate(cipher, results_[i])]
        sorted == sort_desc(refined_results, keys_of(refined_results, "score"))
        final == IF sorted # <<>>
                 THEN refine_with_transformer(Take(sorted, n), VigenereTopK)
                 ELSE <<>>
    IN  Take(final, n)

(***************************************************************************)
(* Substitution search (substitution.py)                                   *)
(***************************************************************************)
\* ALPHABET = "ABCDEFGHIJKLMNOPQRSTUVWXYZ"
ALPHABET == [i \in 1..AlphabetSize |-> ordA + i - 1]

\* the position of x in seq (x occurs in seq)
index_in(seq, x) == Min({i \in 1..Len(seq) : seq[i] = x})

\* the distinct elements of seq in the order they first occur: the
\* insertion order of a Counter / dict
first_seen(seq) ==
    LET firsts == SelectSeq([i \in 1..Len(seq) |-> i],
                            LAMBDA i : index_in(seq, seq[i]) = i)
    IN  [j \in 1..Len(firsts) |-> seq[firsts[j]]]

\* [c for c, _ in Counter(seq).most_common()]: by decreasing count,
\* equal counts in insertion order
most_common(seq) ==
    LET distinct == first_seen(seq)
    IN  sort_desc(distinct, [i \in 1..Len(distinct) |-> Count(seq, distinct[i])])

\* 'ENGLISH_FREQ' in globals(): substitution.py neither defines nor
\* imports the table (caesar.py has one of its own)
ENGLISH_FREQ_in_globals == FALSE

\* the letters by decreasing English frequency, as caesar.py's table
\* orders them
english_by_frequency ==
    <<69, 84, 65, 79, 73, 78, 83, 72, 82, 68, 76, 67, 85,
      77, 87, 70, 71, 89, 80, 66, 86, 75, 74, 88, 81, 90>>

english_order ==
    IF ENGLISH_FREQ_in_globals THEN english_by_frequency ELSE ALPHABET

generate_freq_mapping(ctext) ==
    LET most_common_cipher == most_common(SelectSeq(ctext, isalpha))
        mapped == [i \in 1..Len(most_common_cipher) |->
                      english_order[((i - 1) % AlphabetSize) + 1]]
        remaining_plain ==
            SelectSeq(ALPHABET, LAMBDA p : p \notin Range(mapped))
        remaining_cipher ==
            SelectSeq(ALPHABET, LAMBDA c : c \notin Range(most_common_cipher))
        filled == Min({Len(remaining_cipher), Len(remaining_plain)})
    IN  [c \in Range(most_common_cipher)
                  \cup {remaining_cipher[i] : i \in 1..filled} |->
            IF c \in Range(most_common_cipher)
            THEN mapped[index_in(most_common_cipher, c)]
            ELSE remaining_plain[index_in(remaining_cipher, c)]]

\* COMMON_DIGRAMS
COMMON_DIGRAMS ==
    { <<84,72>>, <<72,69>>, <<73,78>>, <<69,82>>, <<65,78>>, <<82,69>>,
      <<79,78>>, <<65,84>>, <<69,78>>, <<78,68>>, <<84,73>>, <<69,83>>,
      <<79,82>>, <<84,69>>, <<79,70>>, <<69,68>>, <<73,83>>, <<73,84>>,
      <<65,76>>, <<65,82>>, <<83,84>>, <<84,79>>, <<78,84>>, <<72,65>>,
      <<83,69>>, <<79,85>>, <<73,79>>, <<76,69>>, <<86,69>>, <<77,69>> }

\* re.sub(r'[^A-Z]', '', text.upper())
upper_letters_of(text) ==
    SelectSeq(str_upper(text), LAMBDA ch : ch \in UpperLetters)

\* re.sub(r'[^A-Z ]', '', text.upper())
upper_letters_and_spaces_of(text) ==
    SelectSeq(str_upper(text), LAMBDA ch : ch \in UpperLetters \/ ch = 32)

\* the digrams of digram_score that are common
digram_hits(text) ==
    LET t == upper_letters_of(text)
    IN  Cardinality({i \in 1..(Len(t) - 1) : <<t[i], t[i + 1]>> \in COMMON_DIGRAMS})

\* the digrams digram_score counts over (0: the score is 0.0)
digram_count(text) ==
    LET t == upper_letters_of(text)
    IN  IF Len(t) < 2 THEN 0 ELSE Len(t) - 1

swap_mapping(mapping, a, b) ==
    [c \in DOMAIN mapping |->
        IF c = a THEN mapping[b] ELSE IF c = b THEN mapping[a] ELSE mapping[c]]

\* the longest ciphertext detect_substitution is given
MaxSubstLen == 6
\* the longest ciphertext simulated_annealing is given directly
MaxAnnealLen == 3

RECURSIVE Factorial(_)
Factorial(n) == IF n <= 1 THEN 1 ELSE n * Factorial(n - 1)

\* the objective of the search is carried exact, times 100000 * DigramScale
\* (a multiple of every digram count)
DigramScale == Factorial(MaxSubstLen - 1)

\* 0.9 * hybrid_score(plain) + 0.1 * digram_score(plain)
objective(plain) ==
    The({ 9 * hybrid_score(p) * DigramScale
            + (IF digram_count(p) = 0 THEN 0
               ELSE 10000 * ((digram_hits(p) * DigramScale) \div digram_count(p))) :
          p \in {plain} })

\* round(p / q) to an integer, halves to even
round_half_even(p, q) ==
    LET f == p \div q
        r == p % q
    IN  IF 2 * r > q \/ (2 * r = q /\ f % 2 = 1) THEN f + 1 ELSE f

\* round(best_score, 4), in units of 1e-4
round4(score) == round_half_even(score, 10 * DigramScale)

\* best_score > 0.05
ScoreFloor == 500
above_floor(score) == score > ScoreFloor * 10 * DigramScale

\* the temperature is an exact fraction; init_temp = 1.0
init_temp == [num |-> 1, den |-> 1]
\* cooling = 0.995
DefaultCooling == <<199, 200>>

\* T *= cooling
cool(T, cooling) == [num |-> T.num * cooling[1], den |-> T.den * cooling[2]]

\* a temperature floor that is never reached
below_floor_never(T) == FALSE

\* T < 1e-4
TempFloorDen == 10000
below_floor(T) == T.num <= (T.den - 1) \div TempFloorDen

\* every candidate taken as the best
improves_always(cs, best_score) == TRUE

\* cs > best_score
improves(cs, best_score) == cs > best_score

\* the locals of simulated_annealing before its loop
start_annealing(ctext_in, initial_map, max_iters, cooling) ==
    The({
        [phase |-> IF max_iters = 0 THEN "returned" ELSE "loop",
         ciphertext |-> ctext_in,
         ctext |-> ctext,
         initial_map |-> initial_map,
         max_iters |-> max_iters,
         cooling |-> cooling,
         i |-> 0,
         T |-> init_temp,
         best_map |-> initial_map,
         best_plain |-> best_plain,
         best_score |-> best_score,
         current_map |-> initial_map,
         current_score |-> best_score] :
        ctext \in {upper_letters_and_spaces_of(ctext_in)},
        best_plain \in {apply_mapping_to_text(
                            upper_letters_and_spaces_of(ctext_in), initial_map)},
        best_score \in {objective(apply_mapping_to_text(
                            upper_letters_and_spaces_of(ctext_in), initial_map))} })

\* one iteration of the loop of simulated_annealing: the letters a, b that
\* random.sample drew, and whether random.random() fell below the
\* acceptance probability of a worse candidate
anneal_iteration(run, a, b, accept_worse) ==
    The({
    LET accepted == cs >= run.current_score \/ accept_worse
        better == accepted /\ improves(cs, run.best_score)
        candidate_map == candidate[1]
        candidate_plain == candidate[2]
    IN  [run EXCEPT
            !.current_map = IF accepted THEN candidate_map ELSE @,
            !.current_score = IF accepted THEN cs ELSE @,
            !.best_map = IF better THEN candidate_map ELSE @,
            !.best_plain = IF better THEN candidate_plain ELSE @,
            !.best_score = IF better THEN cs ELSE @,
            !.T = T,
            !.i = @ + 1,
            !.phase = IF below_floor(T) \/ run.i + 1 = run.max_iters
                      THEN "returned" ELSE "loop"] :
        candidate \in { <<cm, apply_mapping_to_text(run.ctext, cm)>> :
                          cm \in {swap_mapping(run.current_map, a, b)} },
        cs \in {objective(apply_mapping_to_text(run.ctext, swap_mapping(run.current_map, a, b)))},
        T \in {cool(run.T, run.cooling)} })

\* re.findall(r"[A-Z]{2,}", text): the runs of two or more letters
RECURSIVE words_from(_, _, _)
words_from(text, i, word) ==
    IF i > Len(text)
    THEN IF Len(word) >= 2 THEN <<word>> ELSE <<>>
    ELSE IF text[i] \in UpperLetters
    THEN words_from(text, i + 1, Append(word, text[i]))
    ELSE (IF Len(word) >= 2 THEN <<word>> ELSE <<>>)
            \o words_from(text, i + 1, <<>>)

\* a word of the word list with the letter pattern of cw: the word list is
\* ENGLISH_WORDS, empty under snapshot 1 (no corpus), and holding one word
\* of each pattern under snapshot 2
pattern_candidates(cw) ==
    IF lexicon = 1 THEN <<>>
    ELSE << [j \in 1..Len(cw) |->
                english_by_frequency[index_in(first_seen(cw), cw[j])]] >>

SeedMaxWords == 6

seed_mappings_from_patterns(ctext) ==
    LET words_list == words_from(str_upper(ctext), 1, <<>>)
        distinct == first_seen(words_list)
        words_sorted ==
            sort_desc(distinct,
                      [i \in 1..Len(distinct) |->
                          Len(distinct[i]) * (Len(words_list) + 1)
                            + Count(words_list, distinct[i])])
        chosen == Take(words_sorted, SeedMaxWords)
        RECURSIVE seeds_from(_)
        seeds_from(w) ==
            IF w > Len(chosen) THEN <<>>
            ELSE LET cw == chosen[w]
                     cands == pattern_candidates(cw)
                 IN  [k \in 1..Len(cands) |->
                        [c \in Range(cw) |-> cands[k][index_in(cw, c)]]]
                     \o seeds_from(w + 1)
    IN  seeds_from(1)

\* im = freq_map.copy(); im[k] = v for the items of the seed
overlay(freq_map, seed) ==
    [c \in DOMAIN freq_map \cup DOMAIN seed |->
        IF c \in DOMAIN seed THEN seed[c] ELSE freq_map[c]]

\* the letters random.sample draws from, of the keys of the mapping
SwapLetters == {75, 66, 84}
\* the letters random.shuffle exchanges the plaintext letters of
ShuffleLetters == {75, 66}
\* the shuffles of freq_map considered
shuffles_of(freq_map) ==
    {freq_map} \cup
    {swap_mapping(freq_map, a, b) : a \in ShuffleLetters, b \in ShuffleLetters}

\* the five shuffles detect_substitution adds to its initial maps
ShuffleCount == 5

\* uniq_inits: the initial maps without repetitions, in order
initial_maps(freq_map, seeds, shuffled) ==
    first_seen([i \in 1..Len(seeds) |-> overlay(freq_map, seeds[i])]
                 \o <<freq_map>> \o shuffled)

\* fewer letters than this: too short for substitution analysis
MinSubstLetters == 6

\* the tail of detect_substitution: rank, deduplicate, refine
KeepAtLeast == 10
RefineAtMost == 8

\* the candidates whose cleaned text no earlier candidate has
unique_texts(sorted) ==
    The({ LET cleaned == [i \in 1..Len(s) |->
                            SelectSeq(s[i].text,
                                LAMBDA ch : ch \in UpperLetters \/ ch = 32)]
              kept == SelectSeq([i \in 1..Len(s) |-> i],
                                LAMBDA i : index_in(cleaned, cleaned[i]) = i)
          IN  [j \in 1..Len(kept) |-> s[kept[j]]] :
          s \in {sorted} })

\* the top candidates refined, ranked by final score and cut to top_n
refined_final(top, n) ==
    The({ [i \in 1..Len(first) |->
              [text |-> first[i].text, score |-> first[i].final_score]] :
          first \in { Take(sort_desc(refined, keys_of(refined, "final_score")), n) :
                     refined \in {refine_with_transformer(
                                     top, Min({RefineAtMost, Len(top)}))} } })

finish_substitution(candidates, n, refine) ==
    IF candidates = <<>> THEN <<>>
    ELSE The({ IF refine THEN refined_final(top, n) ELSE Take(top, n) :
               top \in { Take(unique_texts(sorted), Max({KeepAtLeast, n})) :
                        sorted \in {sort_desc(candidates,
                                             keys_of(candidates, "score"))} } })

\* no HTTP response yet
NoResponse == [status |-> 0]
\* no annealing run / no substitution search in progress
NoRun == [phase |-> "idle"]

(***************************************************************************)
(* Harness: a text is drawn, then a transform is applied to it.            *)
(***************************************************************************)
InitCipher ==
    /\ plaintext \in CipherTexts \cup VigTexts
    /\ key = <<>>
    /\ ciphertext = <<>>
    /\ decrypted = <<>>
    /\ op = "input"
    /\ lexicon = 1
    /\ top_n = 0
    /\ results = <<>>
    /\ raised = ""
    /\ faults = {}
    /\ pending = <<>>
    /\ calls = <<>>
    /\ warnings = <<>>
    /\ combined_results = <<>>
    /\ best_cipher = <<>>
    /\ overruns = <<>>
    /\ slow = {}
    /\ fluency = "up"
    /\ cipher_type = ""
    /\ response = NoResponse
    /\ sa = NoRun
    /\ ds = NoRun
    /\ dv = NoRun

CaesarEncrypt ==
    /\ op = "input"
    /\ \E shift \in 0..25 :
        /\ key' = <<shift>>
        /\ ciphertext' = caesar_encrypt(plaintext, shift)
    /\ op' = "caesar_encrypt"
    /\ UNCHANGED <<plaintext, decrypted>>
    /\ UNCHANGED <<dvars, evars, xvars>>

CaesarDecrypt ==
    /\ op = "caesar_encrypt"
    /\ decrypted' = caesar_decrypt(ciphertext, key[1])
    /\ op' = "caesar_decrypt"
    /\ UNCHANGED <<plaintext, key, ciphertext>>
    /\ UNCHANGED <<dvars, evars, xvars>>

AtbashOnce ==
    /\ op = "input"
    /\ ciphertext' = plaintext
    /\ decrypted' = atbash_decrypt(plaintext)
    /\ op' = "atbash_once"
    /\ UNCHANGED <<plaintext, key>>
    /\ UNCHANGED <<dvars, evars, xvars>>

AtbashTwice ==
    /\ op = "atbash_once"
    /\ decrypted # ValueError
    /\ ciphertext' = decrypted
    /\ decrypted' = atbash_decrypt(decrypted)
    /\ op' = "atbash_twice"
    /\ UNCHANGED <<plaintext, key>>
    /\ UNCHANGED <<dvars, evars, xvars>>

AffineEncrypt ==
    /\ op = "input"
    /\ \E a \in valid_a, b \in 0..25 :
        /\ key' = <<a, b>>
        /\ ciphertext' = affine_encrypt(plaintext, a, b)
    /\ op' = "affine_encrypt"
    /\ UNCHANGED <<plaintext, decrypted>>
    /\ UNCHANGED <<dvars, evars, xvars>>

AffineDecrypt ==
    /\ op = "affine_encrypt"
    /\ decrypted' = affine_decrypt(ciphertext, key[1], key[2])
    /\ op' = "affine_decrypt"
    /\ UNCHANGED <<plaintext, key, ciphertext>>
    /\ UNCHANGED <<dvars, evars, xvars>>

\* affine_decrypt called with a multiplier that has no inverse mod 26
AffineDecryptInvalid ==
    /\ op = "input"
    /\ \E a \in (0..AlphabetSize) \ valid_a, b \in {0, 7, 25} :
        /\ key' = <<a, b>>
        /\ decrypted' = affine_decrypt(plaintext, a, b)
    /\ ciphertext' = plaintext
    /\ op' = "affine_invalid"
    /\ UNCHANGED plaintext
    /\ UNCHANGED <<dvars, evars, xvars>>

VigenereEncrypt ==
    /\ op = "input"
    /\ plaintext \in VigTexts
    /\ \E k \in VigKeys :
        /\ key' = k
        /\ ciphertext' = vigenere_encrypt(plaintext, k)
    /\ op' = "vigenere_encrypt"
    /\ UNCHANGED <<plaintext, decrypted>>
    /\ UNCHANGED <<dvars, evars, xvars>>

VigenereDecrypt ==
    /\ op = "vigenere_encrypt"
    /\ decrypted' = vigenere_decrypt(ciphertext, key)
    /\ op' = "vigenere_decrypt"
    /\ UNCHANGED <<plaintext, key, ciphertext>>
    /\ UNCHANGED <<dvars, evars, xvars>>

ApplyMapping ==
    /\ op = "input"
    /\ \E mapping \in SampleMappings :
        /\ key' = mapping_string(mapping)
        /\ decrypted' = apply_mapping_to_text(plaintext, mapping)
    /\ ciphertext' = plaintext
    /\ op' = "apply_mapping"
    /\ UNCHANGED plaintext
    /\ UNCHANGED <<dvars, evars, xvars>>

Next ==
    \/ CaesarEncrypt
    \/ CaesarDecrypt
    \/ AtbashOnce
    \/ AtbashTwice
    \/ AffineEncrypt
    \/ AffineDecrypt
    \/ AffineDecryptInvalid
    \/ VigenereEncrypt
    \/ VigenereDecrypt
    \/ ApplyMapping

Init == InitCipher

Spec == Init /\ [][Next]_vars

(***************************************************************************)
(* Detectors: a ciphertext is drawn (or made by caesar_encrypt) and one    *)
(* detector is called on it.                                               *)
(***************************************************************************)
\* the top_n arguments tried: 3 and 5 are the defaults of the detectors, 26
\* asks detect_caesar for every candidate
TopNs == {3, 5}
CaesarTopNs == TopNs \cup {26}

\* the Lexicon snapshots tried
Lexicons == {1, 2}

\* max_key_len of detect_vigenere
DefaultMaxKeyLen == 10

DetInputs == DetTexts \cup {t \in CipherTexts : Len(t) <= 1}

InitDetect ==
    /\ plaintext \in DetInputs
    /\ key = <<>>
    /\ ciphertext = <<>>
    /\ decrypted = <<>>
    /\ op = "input"
    /\ lexicon \in Lexicons
    /\ top_n = 0
    /\ results = <<>>
    /\ raised = ""
    /\ faults = {}
    /\ pending = <<>>
    /\ calls = <<>>
    /\ warnings = <<>>
    /\ combined_results = <<>>
    /\ best_cipher = <<>>
    /\ overruns = <<>>
    /\ slow = {}
    /\ fluency = "up"
    /\ cipher_type = ""
    /\ response = NoResponse
    /\ sa = NoRun
    /\ ds = NoRun
    /\ dv = NoRun

\* detect_caesar on the ciphertext caesar_encrypt made
DetectCaesar ==
    /\ op = "caesar_encrypt"
    /\ \E n \in CaesarTopNs :
        /\ top_n' = n
        /\ results' = detect_caesar(ciphertext, n)
    /\ raised' = ""
    /\ op' = "detect_caesar"
    /\ UNCHANGED <<plaintext, key, ciphertext, decrypted, lexicon>>
    /\ UNCHANGED <<evars, xvars>>

DetectAtbash ==
    /\ op = "input"
    /\ ciphertext' = plaintext
    /\ results' = detect_atbash(plaintext).value
    /\ raised' = detect_atbash(plaintext).exc
    /\ op' = "detect_atbash"
    /\ UNCHANGED <<plaintext, key, decrypted, lexicon, top_n>>
    /\ UNCHANGED <<evars, xvars>>

DetectAffine ==
    /\ op = "input"
    /\ ciphertext' = plaintext
    /\ \E n \in TopNs, refine \in BOOLEAN :
        /\ top_n' = n
        /\ results' = detect_affine(plaintext, n, refine)
    /\ raised' = ""
    /\ op' = "detect_affine"
    /\ UNCHANGED <<plaintext, key, decrypted, lexicon>>
    /\ UNCHANGED <<evars, xvars>>

DetectVigenere ==
    /\ op = "input"
    /\ ciphertext' = plaintext
    /\ \E n \in TopNs :
        /\ top_n' = n
        /\ results' = detect_vigenere(plaintext, DefaultMaxKeyLen, n)
    /\ raised' = ""
    /\ op' = "detect_vigenere"
    /\ UNCHANGED <<plaintext, key, decrypted, lexicon>>
    /\ UNCHANGED <<evars, xvars>>

NextDetect ==
    \/ CaesarEncrypt
    \/ DetectCaesar
    \/ DetectAtbash
    \/ DetectAffine
    \/ DetectVigenere
    \/ AffineDecryptInvalid

SpecDetect == InitDetect /\ [][NextDetect]_vars

(***************************************************************************)
(* The ensemble (detect_cipher.py): auto_detect runs the detectors in      *)
(* turn through safe_detect, merges their candidates and ranks them.       *)
(***************************************************************************)
\* the detectors list of auto_detect, in its order
DetectorNames == <<"Caesar", "Atbash", "Vigenere", "Affine">>

\* the top_n each detector of the list is given
EnsembleTopN == 3
\* results[:5] of the Caesar short-circuit
CaesarKeep == 5

\* scores of detect_cipher.english_score, in units of 0.01
EnsembleLevels == <<0, 3120, 5480>>

\* detect_cipher.english_score: 0 when the text holds no word of A-Z, a-z
english_score(text) ==
    IF \A i \in 1..Len(text) : text[i] \notin Letters THEN 0
    ELSE ExternalAnswer(text, 7, EnsembleLevels)

\* detector_func(ciphertext, **kwargs): a detector whose collaborators fail
\* raises; detect_atbash can raise on its own
call_detector(name, cipher) ==
    IF name \in faults THEN Raise("Exception")
    ELSE CASE name = "Caesar" -> Return(detect_caesar(cipher, EnsembleTopN))
           [] name = "Atbash" -> detect_atbash(cipher)
           [] name = "Vigenere" ->
                Return(detect_vigenere(cipher, DefaultMaxKeyLen, EnsembleTopN))
           [] name = "Affine" -> Return(detect_affine(cipher, EnsembleTopN, TRUE))

\* the soft budget of safe_detect, in seconds
BudgetSeconds == 10

\* elapsed = time.time() - start of a detector call, in whole seconds
elapsed_of(name) == IF name \in slow THEN BudgetSeconds + 1 ELSE 1

\* a budget check that never reports
over_budget_never(elapsed) == FALSE

\* elapsed > 10: the call is reported as over budget (a warning, nothing else)
over_budget(elapsed) == elapsed > BudgetSeconds

\* safe_detect without its except clause: the exception leaves the call
safe_detect_uncaught(outcome) == outcome

\* safe_detect: the detector's list, or [] when it raised or returned
\* nothing
safe_detect(outcome) ==
    IF outcome.exc # "" THEN Return(<<>>) ELSE Return(outcome.value)

\* the "cipher" label of a merged candidate: the detector's name and the
\* key the label shows
cipher_label(name, r) ==
    CASE name = "Caesar" -> <<name, <<r.shift>>>>
      [] name = "Vigenere" -> <<name, r.key>>
      [] name = "Affine" -> <<name, <<r.a, r.b>>>>
      [] OTHER -> <<name, <<>>>>

\* the entries one detector's results add to combined_results
candidates(name, res) ==
    LET kept == IF name = "Caesar" /\ res # <<>> THEN Take(res, CaesarKeep) ELSE res
    IN  [i \in 1..Len(kept) |->
            [cipher |-> cipher_label(name, kept[i]),
             text |-> kept[i].text,
             score |-> english_score(kept[i].text)]]

\* the top_n arguments of auto_detect tried: 3 is the default
AutoTopNs == {1, 3}

InitEnsemble ==
    /\ plaintext \in DetInputs
    /\ ciphertext = plaintext
    /\ key = <<>>
    /\ decrypted = <<>>
    /\ op = "auto_detect"
    /\ lexicon \in Lexicons
    /\ top_n \in AutoTopNs
    /\ results = <<>>
    /\ raised = ""
    /\ faults \in SUBSET {DetectorNames[i] : i \in 1..Len(DetectorNames)}
    /\ pending = DetectorNames
    /\ calls = <<>>
    /\ warnings = <<>>
    /\ combined_results = <<>>
    /\ best_cipher = <<>>
    /\ overruns = <<>>
    /\ slow = {}
    /\ fluency = "up"
    /\ cipher_type = ""
    /\ response = NoResponse
    /\ sa = NoRun
    /\ ds = NoRun
    /\ dv = NoRun

\* one iteration of the loop over the detectors
RunDetector ==
    /\ op = "auto_detect"
    /\ pending # <<>>
    /\ \E outcome \in {call_detector(Head(pending), ciphertext)} :
       LET name == Head(pending)
           safe == safe_detect(outcome)
       IN  /\ calls' = Append(calls, [name |-> name, ciphertext |-> ciphertext,
                                      outcome |-> outcome])
           /\ warnings' = IF outcome.exc # "" THEN Append(warnings, name) ELSE warnings
           /\ overruns' = IF over_budget(elapsed_of(name))
                          THEN Append(overruns, name) ELSE overruns
           /\ IF safe.exc # ""
              THEN \* an exception safe_detect let through ends auto_detect
                   /\ raised' = safe.exc
                   /\ pending' = <<>>
                   /\ op' = "auto_raised"
                   /\ UNCHANGED combined_results
              ELSE /\ combined_results' = combined_results \o candidates(name, safe.value)
                   /\ pending' = Tail(pending)
                   /\ UNCHANGED <<raised, op>>
    /\ UNCHANGED <<plaintext, key, ciphertext, decrypted, lexicon, top_n, results,
                   faults, best_cipher, xvars>>

\* no candidate at all: the "Unknown" fallback
ReturnUnknown ==
    /\ op = "auto_detect"
    /\ pending = <<>>
    /\ combined_results = <<>>
    /\ best_cipher' = <<"Unknown", <<>>>>
    /\ decrypted' = ciphertext
    /\ results' = <<>>
    /\ op' = "auto_done"
    /\ UNCHANGED <<plaintext, key, ciphertext, lexicon, top_n, raised,
                   faults, pending, calls, warnings, combined_results, overruns, xvars>>

\* the merged list is sorted in place and its first top_n are returned
ReturnBest ==
    /\ op = "auto_detect"
    /\ pending = <<>>
    /\ combined_results # <<>>
    /\ LET sorted == sort_desc(combined_results, keys_of(combined_results, "score"))
           top_results == Take(sorted, top_n)
       IN  /\ combined_results' = sorted
           /\ results' = top_results
           /\ best_cipher' = top_results[1].cipher
           /\ decrypted' = top_results[1].text
    /\ op' = "auto_done"
    /\ UNCHANGED <<plaintext, key, ciphertext, lexicon, top_n, raised,
                   faults, pending, calls, warnings, overruns, xvars>>

\* the dict auto_detect returns: its keys are best_cipher, best_text and
\* top_results on both return paths
returned ==
    [best_cipher |-> best_cipher, best_text |-> decrypted, top_results |-> results]

\* auto_detect with detectors that run over the budget; the detectors
\* either all work or all fail
InitBudget ==
    /\ plaintext \in DetInputs
    /\ ciphertext = plaintext
    /\ key = <<>>
    /\ decrypted = <<>>
    /\ op = "auto_detect"
    /\ lexicon \in Lexicons
    /\ top_n = EnsembleTopN
    /\ results = <<>>
    /\ raised = ""
    /\ faults \in {{}, {DetectorNames[i] : i \in 1..Len(DetectorNames)}}
    /\ pending = DetectorNames
    /\ calls = <<>>
    /\ warnings = <<>>
    /\ combined_results = <<>>
    /\ best_cipher = <<>>
    /\ overruns = <<>>
    /\ slow \in SUBSET {DetectorNames[i] : i \in 1..Len(DetectorNames)}
    /\ fluency = "up"
    /\ cipher_type = ""
    /\ response = NoResponse
    /\ sa = NoRun
    /\ ds = NoRun
    /\ dv = NoRun

NextEnsemble ==
    \/ RunDetector
    \/ ReturnUnknown
    \/ ReturnBest

SpecEnsemble == InitEnsemble /\ [][NextEnsemble]_vars

SpecBudget == InitBudget /\ [][NextEnsemble]_vars

(***************************************************************************)
(* The HTTP endpoint (app.py): decrypt validates the request, dispatches   *)
(* on cipher_type and answers with a status code and a JSON body.          *)
(***************************************************************************)
\* str.strip() that strips nothing
strip_nothing(text) == text

\* str.strip()
strip(text) ==
    LET inked == {i \in 1..Len(text) : ~iswhitespace(text[i])}
    IN  IF inked = {} THEN <<>> ELSE SubSeq(text, Min(inked), Max(inked))

\* the cipher_type values sent (already stripped and lower-cased); "rot13"
\* stands for every value the endpoint does not know
CipherTypes == {"auto", "auto detect", "caesar", "vigenere", "atbash", "affine", "rot13"}
AutoTypes == {"auto", "auto detect"}

\* the detector call of a single-cipher branch
single_detect(type, cipher) ==
    CASE type = "caesar" -> Return(detect_caesar(cipher, 3))
      [] type = "vigenere" -> Return(detect_vigenere(cipher, DefaultMaxKeyLen, 5))
      [] type = "atbash" -> detect_atbash(cipher)
      [] type = "affine" -> Return(detect_affine(cipher, 5, TRUE))

cipher_used_of(type) ==
    CASE type = "caesar" -> "Caesar Cipher"
      [] type = "vigenere" -> "Vigenere Cipher"
      [] type = "atbash" -> "Atbash Cipher"
      [] type = "affine" -> "Affine Cipher"

\* jsonify({...}), 200
ok_response(cipher_used, best_decryption, top_results) ==
    [status |-> 200, cipher_used |-> cipher_used,
     best_decryption |-> best_decryption, top_results |-> top_results]

\* jsonify({"error": ...}), status
error_response(status, error) == [status |-> status, error |-> error]

\* a request: any ciphertext, blank ones included, and any cipher_type;
\* the detectors either all work or all fail
InitApp ==
    /\ plaintext \in DetInputs
    /\ cipher_type \in CipherTypes
    /\ ciphertext = <<>>
    /\ key = <<>>
    /\ decrypted = <<>>
    /\ op = "request"
    /\ lexicon \in Lexicons
    /\ top_n = 0
    /\ results = <<>>
    /\ raised = ""
    /\ faults \in {{}, {DetectorNames[i] : i \in 1..Len(DetectorNames)}}
    /\ pending = <<>>
    /\ calls = <<>>
    /\ warnings = <<>>
    /\ combined_results = <<>>
    /\ best_cipher = <<>>
    /\ overruns = <<>>
    /\ slow = {}
    /\ fluency = "up"
    /\ response = NoResponse
    /\ sa = NoRun
    /\ ds = NoRun
    /\ dv = NoRun

\* decrypt up to its return, or up to its call of auto_detect
DecryptReceive ==
    /\ op = "request"
    /\ LET c == strip(plaintext)
       IN  IF c = <<>>
           THEN /\ response' = error_response(400, "Ciphertext is required")
                /\ op' = "responded"
                /\ UNCHANGED <<ciphertext, top_n, results, raised, pending>>
           ELSE IF cipher_type \in AutoTypes
           THEN /\ ciphertext' = c
                /\ top_n' = EnsembleTopN
                /\ pending' = DetectorNames
                /\ op' = "auto_detect"
                /\ UNCHANGED <<response, results, raised>>
           ELSE IF cipher_type \in {"caesar", "vigenere", "atbash", "affine"}
           THEN \E outcome \in {single_detect(cipher_type, c)} :
                /\ ciphertext' = c
                /\ results' = outcome.value
                /\ raised' = outcome.exc
                /\ response' =
                      IF outcome.exc # "" THEN error_response(500, outcome.exc)
                      ELSE ok_response(cipher_used_of(cipher_type),
                              IF outcome.value # <<>> THEN outcome.value[1].text ELSE <<>>,
                              Take(outcome.value, 5))
                /\ op' = "responded"
                /\ UNCHANGED <<top_n, pending>>
           ELSE /\ response' = error_response(400, "Invalid cipher type")
                /\ op' = "responded"
                /\ UNCHANGED <<ciphertext, top_n, results, raised, pending>>
    /\ UNCHANGED <<plaintext, key, decrypted, lexicon, faults, calls, warnings,
                   combined_results, best_cipher, overruns, slow, fluency,
                   cipher_type, sa, ds, dv>>

\* decrypt after auto_detect has returned (or raised)
DecryptRespond ==
    /\ op \in {"auto_done", "auto_raised"}
    /\ cipher_type \in AutoTypes
    /\ response' = IF raised # "" THEN error_response(500, raised)
                   ELSE ok_response(returned.best_cipher, returned.best_text,
                                    returned.top_results)
    /\ op' = "responded"
    /\ UNCHANGED <<plaintext, key, ciphertext, decrypted, lexicon, top_n, results,
                   raised, evars, slow, fluency, cipher_type, sa, ds, dv>>

NextApp ==
    \/ DecryptReceive
    \/ RunDetector
    \/ ReturnUnknown
    \/ ReturnBest
    \/ DecryptRespond

SpecApp == InitApp /\ [][NextApp]_vars

(***************************************************************************)
(* The fluency refiner called on a candidate list while GPT-2 fails.       *)
(***************************************************************************)
\* the top_k arguments tried
TopKs == {2, 5}

Reverse(seq) == [i \in 1..Len(seq) |-> seq[Len(seq) + 1 - i]]

InitRefine ==
    /\ plaintext \in DetInputs
    /\ key = <<>>
    /\ ciphertext = <<>>
    /\ decrypted = <<>>
    /\ op = "input"
    /\ lexicon \in Lexicons
    /\ top_n = 0
    /\ results = <<>>
    /\ raised = ""
    /\ faults = {}
    /\ pending = <<>>
    /\ calls = <<>>
    /\ warnings = <<>>
    /\ combined_results = <<>>
    /\ best_cipher = <<>>
    /\ overruns = <<>>
    /\ slow = {}
    /\ fluency \in {"flaky", "down"}
    /\ cipher_type = ""
    /\ response = NoResponse
    /\ sa = NoRun
    /\ ds = NoRun
    /\ dv = NoRun

\* refine_with_transformer on the candidates detect_caesar returned, in the
\* order returned or in the opposite order
RefineCandidates ==
    /\ op = "detect_caesar"
    /\ \E k \in TopKs, given \in {results, Reverse(results)} :
        /\ calls' = <<[name |-> "refine_with_transformer", candidates |-> given,
                       top_k |-> k]>>
        /\ results' = refine_with_transformer(given, k)
    /\ op' = "refine"
    /\ UNCHANGED <<plaintext, key, ciphertext, decrypted, lexicon, top_n, raised,
                   faults, pending, warnings, combined_results, best_cipher,
                   overruns, xvars>>

NextRefine ==
    \/ CaesarEncrypt
    \/ DetectCaesar
    \/ RefineCandidates

SpecRefine == InitRefine /\ [][NextRefine]_vars

(***************************************************************************)
(* Substitution harness: a ciphertext is drawn, then generate_freq_mapping, *)
(* simulated_annealing or detect_substitution is called with it.  What the *)
(* random generator draws (the letters swapped, the acceptance of a worse  *)
(* candidate, the shuffles) is chosen by the action.                       *)
(***************************************************************************)
\* K, b, 1: a letter, a lower-case letter, a character the cleaning drops
AnnealChars == {75, 98, 49}
AnnealTexts == TextsOver(AnnealChars, MaxAnnealLen)
SubstChars == {75, 66}
SubstTexts == {t \in TextsOver(SubstChars, MaxSubstLen) : Len(t) = MaxSubstLen}

\* the cooling factors and iteration caps simulated_annealing is called with
Coolings == {<<1, 32>>, <<1, 2>>}
AnnealMaxIters == {2, 4}
\* the arguments detect_substitution is called with
Restarts == {1, 2}
SubstMaxIters == {1, 2}
SubstTopNs == {3}

InitSubst ==
    /\ plaintext \in AnnealTexts \cup SubstTexts
    /\ key = <<>>
    /\ ciphertext = <<>>
    /\ decrypted = <<>>
    /\ op = "input"
    /\ lexicon \in Lexicons
    /\ top_n = 0
    /\ results = <<>>
    /\ raised = ""
    /\ faults = {}
    /\ pending = <<>>
    /\ calls = <<>>
    /\ warnings = <<>>
    /\ combined_results = <<>>
    /\ best_cipher = <<>>
    /\ overruns = <<>>
    /\ slow = {}
    /\ fluency = "up"
    /\ cipher_type = ""
    /\ response = NoResponse
    /\ sa = NoRun
    /\ ds = NoRun
    /\ dv = NoRun

GenerateFreqMapping ==
    /\ op = "input"
    /\ key' = generate_freq_mapping(plaintext)
    /\ ciphertext' = plaintext
    /\ op' = "generate_freq_mapping"
    /\ UNCHANGED <<plaintext, decrypted>>
    /\ UNCHANGED <<dvars, evars, xvars>>

\* simulated_annealing(ciphertext, initial_map, max_iters, 1.0, cooling), up
\* to its loop
AnnealStart ==
    /\ op = "input"
    /\ plaintext \in AnnealTexts
    /\ \E initial_map \in SampleMappings, max_iters \in AnnealMaxIters,
          cooling \in Coolings :
        sa' = start_annealing(plaintext, initial_map, max_iters, cooling)
    /\ ciphertext' = plaintext
    /\ op' = "simulated_annealing"
    /\ UNCHANGED <<plaintext, key, decrypted>>
    /\ UNCHANGED <<dvars, evars>>
    /\ UNCHANGED <<slow, fluency, cipher_type, response, ds, dv>>

\* one iteration of the loop
AnnealStep ==
    /\ sa.phase = "loop"
    /\ \E a \in SwapLetters \cap DOMAIN sa.current_map,
          b \in SwapLetters \cap DOMAIN sa.current_map,
          accept_worse \in BOOLEAN :
        /\ a < b
        /\ sa' = anneal_iteration(sa, a, b, accept_worse)
    /\ UNCHANGED cvars
    /\ UNCHANGED <<dvars, evars>>
    /\ UNCHANGED <<slow, fluency, cipher_type, response, ds, dv>>

\* detect_substitution(ciphertext, restarts, max_iters, top_n), up to its
\* restart loop
DetectSubstitution ==
    /\ op = "input"
    /\ \E restarts \in Restarts, max_iters \in SubstMaxIters, n \in SubstTopNs :
        LET ctext == upper_letters_and_spaces_of(plaintext)
        IN  IF Len(upper_letters_of(ctext)) < MinSubstLetters
            THEN /\ ds' = [phase |-> "returned", restarts |-> restarts, runs |-> 0]
                 /\ top_n' = n
            ELSE \E freq_map \in {generate_freq_mapping(ctext)} :
                 \E shuffled \in [1..ShuffleCount -> shuffles_of(freq_map)] :
                 /\ ds' = [phase |-> IF restarts = 0 THEN "collected" ELSE "restarts",
                           ctext |-> ctext,
                           restarts |-> restarts,
                           max_iters |-> max_iters,
                           freq_map |-> freq_map,
                           uniq_inits |->
                               initial_maps(freq_map,
                                            seed_mappings_from_patterns(ctext),
                                            shuffled),
                           i |-> 0,
                           runs |-> 0,
                           candidates |-> <<>>]
                 /\ top_n' = n
    /\ ciphertext' = plaintext
    /\ results' = <<>>
    /\ op' = "detect_substitution"
    /\ UNCHANGED <<plaintext, key, decrypted>>
    /\ UNCHANGED <<lexicon, raised>>
    /\ UNCHANGED evars
    /\ UNCHANGED <<slow, fluency, cipher_type, response, sa, dv>>

\* a restart: the initial map is chosen and simulated_annealing is called
RestartBegin ==
    /\ ds.phase = "restarts"
    /\ \E init_map \in (IF ds.i < Len(ds.uniq_inits)
                        THEN {ds.uniq_inits[ds.i + 1]}
                        ELSE shuffles_of(ds.freq_map)) :
        sa' = start_annealing(ds.ctext, init_map, ds.max_iters, DefaultCooling)
    /\ ds' = [ds EXCEPT !.phase = "annealing"]
    /\ UNCHANGED cvars
    /\ UNCHANGED <<dvars, evars>>
    /\ UNCHANGED <<slow, fluency, cipher_type, response, dv>>

\* simulated_annealing has returned: its best candidate is collected
RestartEnd ==
    /\ ds.phase = "annealing"
    /\ sa.phase = "returned"
    /\ ds' = [ds EXCEPT
                !.candidates =
                    IF above_floor(sa.best_score)
                    THEN Append(@, [text |-> sa.best_plain,
                                    score |-> round4(sa.best_score)])
                    ELSE @,
                !.runs = @ + 1,
                !.i = @ + 1,
                !.phase = IF ds.i + 1 = ds.restarts THEN "collected"
                          ELSE "restarts"]
    /\ UNCHANGED cvars
    /\ UNCHANGED <<dvars, evars>>
    /\ UNCHANGED <<slow, fluency, cipher_type, response, sa, dv>>

\* the candidates of the restarts are ranked and returned
DetectSubstitutionReturn ==
    /\ ds.phase = "collected"
    /\ results' = finish_substitution(ds.candidates, top_n, TRUE)
    /\ ds' = [ds EXCEPT !.phase = "returned"]
    /\ UNCHANGED cvars
    /\ UNCHANGED <<lexicon, top_n, raised>>
    /\ UNCHANGED evars
    /\ UNCHANGED <<slow, fluency, cipher_type, response, sa, dv>>

NextSubst ==
    \/ GenerateFreqMapping
    \/ AnnealStart
    \/ AnnealStep
    \/ DetectSubstitution
    \/ RestartBegin
    \/ RestartEnd
    \/ DetectSubstitutionReturn

SpecSubst == InitSubst /\ [][NextSubst]_vars

\* the calls whose termination is followed: under the snapshot with a word
\* list, of the shorter texts and of the texts that begin with a run of K
FairTexts ==
    {t \in AnnealTexts : Len(t) < MaxAnnealLen}
        \cup {t \in SubstTexts : \A i \in 1..(MaxSubstLen - 2) : t[i] = 75}

InitSubstFair ==
    /\ InitSubst
    /\ lexicon = 2
    /\ plaintext \in FairTexts

\* a call that has been made runs on: the next step of its loop is taken
SpecSubstFair ==
    /\ InitSubstFair
    /\ [][NextSubst]_vars
    /\ WF_vars(AnnealStep)
    /\ WF_vars(RestartBegin)
    /\ WF_vars(RestartEnd)
    /\ WF_vars(DetectSubstitutionReturn)

(***************************************************************************)
(* The Vigenere key search (vigenere.py): likely_key_lengths is called on  *)
(* a ciphertext, and detect_vigenere runs candidate by candidate, trial    *)
(* key by trial key.                                                       *)
(***************************************************************************)
\* the ciphertexts of the key-length estimation: long enough for repeated
\* substrings at several spacings
MaxKasiskiLen == 9
KasiskiChars == {75, 66}
KasiskiTexts == TextsOver(KasiskiChars, MaxKasiskiLen)

\* the max_len arguments tried (12 is the default)
KeyLenMaxLens == {1, 4, 12}

\* the ciphertexts detect_vigenere is run on
VigenereTexts == DetTexts \cup {t \in KasiskiTexts : Len(t) <= MaxVigLen}

InitVigenere ==
    /\ plaintext \in KasiskiTexts \cup VigenereTexts
    /\ key = <<>>
    /\ ciphertext = <<>>
    /\ decrypted = <<>>
    /\ op = "input"
    /\ lexicon \in Lexicons
    /\ top_n = 0
    /\ results = <<>>
    /\ raised = ""
    /\ faults = {}
    /\ pending = <<>>
    /\ calls = <<>>
    /\ warnings = <<>>
    /\ combined_results = <<>>
    /\ best_cipher = <<>>
    /\ overruns = <<>>
    /\ slow = {}
    /\ fluency = "up"
    /\ cipher_type = ""
    /\ response = NoResponse
    /\ sa = NoRun
    /\ ds = NoRun
    /\ dv = NoRun

\* likely_key_lengths(cipher, max_len)
LikelyKeyLengths ==
    /\ op = "input"
    /\ \E max_len \in KeyLenMaxLens :
        dv' = [phase |-> "lengths", cipher |-> plaintext, max_len |-> max_len,
               lengths |-> likely_key_lengths(plaintext, max_len)]
    /\ ciphertext' = plaintext
    /\ op' = "likely_key_lengths"
    /\ UNCHANGED <<plaintext, key, decrypted>>
    /\ UNCHANGED <<dvars, evars>>
    /\ UNCHANGED <<slow, fluency, cipher_type, response, sa, ds>>

\* the refinement keeps a trial key that scores at or above the best so far
keeps_ties(s, best_score) == s >= best_score

\* if s > best_score
keeps(s, best_score) == s > best_score

\* the trial key made from the best key found so far
new_key_from_best(k, best_key, i, delta) == tweak(best_key, i, delta)

\* klist = list(key); klist[i] = ...; new_key = ''.join(klist)
new_key_of(k, best_key, i, delta) == tweak(k, i, delta)

\* the locals of the refinement when candidate r is taken up
refining(run, r) ==
    [run EXCEPT !.r = r, !.i = 1, !.delta = -1,
                !.best_key = IF r <= Len(run.results) THEN run.results[r].key ELSE <<>>,
                !.best_score = IF r <= Len(run.results) THEN run.results[r].score ELSE 0]

\* detect_vigenere(ciphertext, max_key_len, top_n), up to the refinement
VigenereStart ==
    /\ op = "input"
    /\ plaintext \in VigenereTexts
    /\ \E n \in TopNs :
       \E lengths \in {likely_key_lengths(plaintext, DefaultMaxKeyLen)} :
       \E results_ \in {concat_rotations(plaintext, lengths, 1)} :
        dv' = refining([phase |-> "refine", cipher |-> plaintext,
                        max_len |-> DefaultMaxKeyLen, top_n |-> n,
                        lengths |-> lengths, results |-> results_,
                        r |-> 1, i |-> 1, delta |-> -1,
                        best_key |-> <<>>, best_score |-> 0,
                        new_key |-> <<>>, s |-> 0,
                        refined_results |-> <<>>], 1)
    /\ ciphertext' = plaintext
    /\ op' = "refine"
    /\ UNCHANGED <<plaintext, key, decrypted>>
    /\ UNCHANGED <<dvars, evars>>
    /\ UNCHANGED <<slow, fluency, cipher_type, response, sa, ds>>

\* one trial of the local refinement: letter i of the key moved by delta
VigenereTrial ==
    /\ dv.phase = "refine"
    /\ dv.r <= Len(dv.results)
    /\ dv.i <= Len(dv.results[dv.r].key)
    /\ \E new_key \in {new_key_of(dv.results[dv.r].key, dv.best_key, dv.i, dv.delta)} :
       \E s \in {hybrid_score(vigenere_decrypt(dv.cipher, new_key))} :
        dv' = [dv EXCEPT !.new_key = new_key, !.s = s,
                         !.best_key = IF keeps(s, dv.best_score) THEN new_key ELSE @,
                         !.best_score = IF keeps(s, dv.best_score) THEN s ELSE @,
                         !.i = IF dv.delta = 1 THEN @ + 1 ELSE @,
                         !.delta = -dv.delta]
    /\ UNCHANGED <<cvars, dvars, evars>>
    /\ UNCHANGED <<slow, fluency, cipher_type, response, sa, ds>>

\* the refined candidate is appended and the next candidate taken up
VigenereKeep ==
    /\ dv.phase = "refine"
    /\ dv.r <= Len(dv.results)
    /\ dv.i > Len(dv.results[dv.r].key)
    /\ dv' = refining([dv EXCEPT !.refined_results = Append(@,
                            [key |-> dv.best_key,
                             text |-> vigenere_decrypt(dv.cipher, dv.best_key),
                             score |-> dv.best_score])],
                      dv.r + 1)
    /\ UNCHANGED <<cvars, dvars, evars>>
    /\ UNCHANGED <<slow, fluency, cipher_type, response, sa, ds>>

\* the refined candidates are sorted, re-ranked and returned
VigenereReturn ==
    /\ dv.phase = "refine"
    /\ dv.r > Len(dv.results)
    /\ \E sorted \in {sort_desc(dv.refined_results, keys_of(dv.refined_results, "score"))} :
       \E final \in {IF dv.refined_results # <<>>
                     THEN refine_with_transformer(Take(sorted, dv.top_n), VigenereTopK)
                     ELSE <<>>} :
        results' = Take(final, dv.top_n)
    /\ dv' = [dv EXCEPT !.phase = "returned"]
    /\ top_n' = dv.top_n
    /\ raised' = ""
    /\ op' = "detect_vigenere"
    /\ UNCHANGED <<plaintext, key, ciphertext, decrypted, lexicon>>
    /\ UNCHANGED evars
    /\ UNCHANGED <<slow, fluency, cipher_type, response, sa, ds>>

NextVigenere ==
    \/ LikelyKeyLengths
    \/ VigenereStart
    \/ VigenereTrial
    \/ VigenereKeep
    \/ VigenereReturn

SpecVigenere == InitVigenere /\ [][NextVigenere]_vars

(***************************************************************************)
(* Claims                                                                  *)
(***************************************************************************)
LettersAndSpaces(text) ==
    \A i \in 1..Len(text) : text[i] \in Letters \cup {32}

\* C1: Caesar round trip: for every plaintext made of letters (either case)
\* of the 26-letter alphabet and spaces, and every shift k in 0..25,
\* caesar_decrypt(caesar_encrypt(plaintext, k), k) = plaintext.
C1_CaesarRoundTrip ==
    (op = "caesar_decrypt" /\ LettersAndSpaces(plaintext))
        => decrypted = plaintext

C1_Witness ==
    /\ op = "caesar_decrypt"
    /\ plaintext = <<90, 97>>
    /\ key = <<3>>
    /\ ciphertext = <<67, 100>>
    /\ decrypted = plaintext

\* the number of alphabetic characters before position i
RECURSIVE LettersBefore(_, _)
LettersBefore(text, i) ==
    IF i <= 1 THEN 0
    ELSE LettersBefore(text, i - 1) + (IF isalpha(text[i - 1]) THEN 1 ELSE 0)

\* the shift of the key letter that the n-th letter of a text is paired with
KeyShiftAt(k, n) == upper(k[(n % Len(k)) + 1]) - ordA

\* C2: Vigenere round trip: for every plaintext made of letters and spaces
\* and every non-empty alphabetic key, vigenere_decrypt(encrypt(plaintext,
\* key), key) = plaintext, and both transforms pair the n-th LETTER of the
\* text with key letter n mod len(key): a space leaves the text unchanged
\* and consumes no key letter.
C2_VigenereRoundTrip ==
    (op = "vigenere_decrypt" /\ LettersAndSpaces(plaintext))
        => /\ decrypted = plaintext
           /\ Len(ciphertext) = Len(plaintext)
           /\ \A i \in 1..Len(plaintext) :
                LET n == LettersBefore(plaintext, i)
                    base == IF isupper(plaintext[i]) THEN ordA ELSE orda
                IN  IF isalpha(plaintext[i])
                    THEN /\ ciphertext[i] =
                              ((plaintext[i] - base + KeyShiftAt(key, n)) % 26) + base
                         /\ decrypted[i] =
                              ((ciphertext[i] - base - KeyShiftAt(key, n)) % 26) + base
                    ELSE ciphertext[i] = plaintext[i]

\* "y A" under key "Bc": the space consumes no key letter, so 'A' meets 'c'
C2_Witness ==
    /\ op = "vigenere_decrypt"
    /\ plaintext = <<121, 32, 65>>
    /\ key = <<66, 99>>
    /\ ciphertext = <<122, 32, 67>>
    /\ decrypted = plaintext

\* C3: Affine round trip: for every a in 1..25 with gcd(a, 26) = 1, every b
\* in 0..25 and every plaintext of letters and spaces, affine_decrypt
\* returns the plaintext from the text encrypted by c = (a*p + b) mod 26,
\* and mod_inv(a, 26) is an x with (a*x) mod 26 = 1.
C3_AffineRoundTrip ==
    op = "affine_decrypt"
        => /\ (key[1] * mod_inv(key[1], AlphabetSize)) % AlphabetSize = 1
           /\ LettersAndSpaces(plaintext) => decrypted = plaintext

\* "Za" under a = 5, b = 8: Z -> (5*25 + 8) mod 26 = 3 -> 'D', a -> 'i'
C3_Witness ==
    /\ op = "affine_decrypt"
    /\ plaintext = <<90, 97>>
    /\ key = <<5, 8>>
    /\ ciphertext = <<68, 105>>
    /\ decrypted = plaintext

\* C4: Atbash is self-inverse: for every text, atbash_decrypt returns a
\* text, and atbash_decrypt(atbash_decrypt(text)) = text.
C4_AtbashSelfInverse ==
    /\ op = "atbash_once" => decrypted # ValueError
    /\ op = "atbash_twice" => decrypted = plaintext

\* what the code does hold to: on texts whose alphabetic characters are all
\* among the 26 letters, two applications give the text back
C4_AtbashSelfInverseOnLetters ==
    (\A i \in 1..Len(plaintext) : isalpha(plaintext[i]) => plaintext[i] \in Letters)
        => C4_AtbashSelfInverse

KeepsFrame(out, inp) ==
    /\ Len(out) = Len(inp)
    /\ \A i \in 1..Len(inp) :
        /\ ~isalpha(inp[i]) => out[i] = inp[i]
        /\ isupper(inp[i]) => isupper(out[i])
        /\ islower(inp[i]) => islower(out[i])

DecryptOps ==
    {"caesar_decrypt", "atbash_once", "atbash_twice", "affine_decrypt",
     "vigenere_decrypt", "apply_mapping"}

\* C5: for every decryption transform (Caesar, Atbash, Affine, Vigenere,
\* the substitution mapping application) and every valid key, the output
\* has the length of the input, every non-alphabetic character is unchanged
\* at its position, and every letter position keeps the case of the
\* ciphertext character at that position.
C5_DecryptKeepsFrame ==
    op \in DecryptOps => KeepsFrame(decrypted, ciphertext)

\* the same, for the transforms other than the mapping application and on
\* ciphertexts whose alphabetic characters are among the 26 letters
C5_FrameOfShiftCiphers ==
    (/\ op \in DecryptOps \ {"apply_mapping"}
     /\ \A i \in 1..Len(ciphertext) :
            isalpha(ciphertext[i]) => ciphertext[i] \in Letters)
        => KeepsFrame(decrypted, ciphertext)

OnlyPlainLetters(text) ==
    \A i \in 1..Len(text) : isalpha(text[i]) => text[i] \in Letters

\* C6: Affine validity: every candidate detect_affine returns has a key
\* (a, b) with gcd(a, 26) = 1 and 0 <= b <= 25, and affine_decrypt called
\* with a multiplier that is not coprime with 26 returns the empty string.
C6_AffineValidity ==
    /\ op = "detect_affine" =>
            \A i \in 1..Len(results) :
                /\ results[i].a \in 1..25
                /\ gcd(results[i].a, 26) = 1
                /\ results[i].b \in 0..25
    /\ op = "affine_invalid" => decrypted = <<>>

\* a non-empty text given to affine_decrypt with a = 13
C6_Witness ==
    /\ op = "affine_invalid"
    /\ key[1] = 13
    /\ Len(ciphertext) = MaxDetLen
    /\ \E i \in 1..Len(ciphertext) : ciphertext[i] \in Letters
    /\ decrypted = <<>>

\* detect_affine returning a full list that holds a key with a > 1
C6_WitnessDetect ==
    /\ op = "detect_affine"
    /\ Len(results) = top_n
    /\ \E i \in 1..Len(results) : results[i].a > 1

RankedOps == {"detect_caesar", "detect_affine", "detect_vigenere"}

\* C7: Monotonic ranking: in the list each single model returns, the score
\* field is non-increasing from first to last.
C7_MonotonicRanking ==
    op \in RankedOps =>
        \A i \in 1..Len(results) : \A j \in i..Len(results) :
            results[i].score >= results[j].score

\* C7, second half: candidates of equal score appear in the order in which
\* their keys were enumerated (shift for Caesar, (a, b) for Affine).
C7_TiesInEnumerationOrder ==
    /\ op = "detect_caesar" =>
            \A i \in 1..Len(results) : \A j \in (i + 1)..Len(results) :
                results[i].score = results[j].score
                    => results[i].shift < results[j].shift
    /\ op = "detect_affine" =>
            \A i \in 1..Len(results) : \A j \in (i + 1)..Len(results) :
                results[i].score = results[j].score
                    => \/ results[i].a < results[j].a
                       \/ results[i].a = results[j].a /\ results[i].b < results[j].b

\* what holds of every detector: the list is ordered by the score the
\* ranking used (final_score where the fluency refinement attached one)
C7_RankedByFinalScore ==
    op \in RankedOps =>
        \A i \in 1..Len(results) : \A j \in i..Len(results) :
            LET f(r) == IF "final_score" \in DOMAIN r THEN r.final_score ELSE r.score
            IN  f(results[i]) >= f(results[j])

\* the score of the decryption under shift j, as detect_caesar computes it
CaesarScore(j) == hybrid_score(caesar_decrypt(ciphertext, j))

\* the shifts ranked ahead of shift k by the stable descending sort
ShiftsAhead(k) ==
    LET sk == CaesarScore(k)
    IN  {j \in 0..25 : LET sj == CaesarScore(j)
                       IN  sj > sk \/ (sj = sk /\ j < k)}

TrueShiftReturned ==
    \E i \in 1..Len(results) :
        results[i].shift = key[1] /\ results[i].text = plaintext

\* C8 as stated: for every ciphertext obtained by Caesar-encrypting a
\* plaintext with a shift k in 0..25, the candidates detect_caesar returns
\* include the candidate with shift = k whose text is that plaintext.
C8_CaesarExhaustive ==
    (op = "detect_caesar" /\ OnlyPlainLetters(plaintext)) => TrueShiftReturned

\* C8 as amended: detect_caesar returns the first top_n candidates of the
\* ranking, so the candidate with shift = k and text = plaintext is among
\* them exactly when fewer than top_n shifts rank ahead of k (a higher
\* score, or the same score and a smaller shift): always when top_n >= 26.
C8_CaesarExhaustiveWithinTopN ==
    (op = "detect_caesar" /\ OnlyPlainLetters(plaintext))
        => /\ Len(results) = (IF top_n < 26 THEN top_n ELSE 26)
           /\ TrueShiftReturned <=> Cardinality(ShiftsAhead(key[1])) < top_n
           /\ top_n >= 26 => TrueShiftReturned

\* a true shift of 3 or more returned among the top 3: the ranking, not the
\* enumeration order, put it there
C8_Witness ==
    /\ op = "detect_caesar"
    /\ top_n = 3
    /\ key[1] >= 3
    /\ \E i \in 1..Len(plaintext) : plaintext[i] \in Letters
    /\ TrueShiftReturned
    /\ Cardinality(ShiftsAhead(key[1])) < 3

\* A <-> Z, B <-> Y, ... in either case; every other character unchanged
Mirror(text) ==
    [i \in 1..Len(text) |->
        IF text[i] \in UpperLetters THEN 155 - text[i]
        ELSE IF text[i] \in LowerLetters THEN 219 - text[i]
        ELSE text[i]]

\* C9: detect_atbash returns exactly one candidate for every input string,
\* and that candidate's text is the Atbash mirror of the ciphertext.
C9_AtbashOneCandidate ==
    op = "detect_atbash"
        => /\ raised = ""
           /\ Len(results) = 1
           /\ results[1].text = Mirror(ciphertext)

\* what holds: the same, for inputs whose alphabetic characters are among
\* the 26 letters
C9_AtbashOneCandidateOnLetters ==
    OnlyPlainLetters(plaintext) => C9_AtbashOneCandidate

\* the merged candidates that carry a detector's name
MergedOf(name) == SelectSeq(combined_results, LAMBDA e : e.cipher[1] = name)

\* the candidates a completed call hands to the merge
HandedOver(call) ==
    IF call.name = "Caesar" THEN Take(call.outcome.value, CaesarKeep)
    ELSE call.outcome.value

\* C10: Ensemble failure isolation: in auto_detect, a detector that raises
\* contributes zero candidates, no exception leaves auto_detect, every
\* detector of the list is still run (once the loop is over, the calls made
\* are the whole list in order), and every candidate of a detector that
\* completed is in the merged list under that detector's label.
C10_FailureIsolation ==
    /\ raised = ""
    /\ pending = <<>> => [i \in 1..Len(calls) |-> calls[i].name] = DetectorNames
    /\ \A i \in 1..Len(calls) :
          IF calls[i].outcome.exc # ""
          THEN MergedOf(calls[i].name) = <<>>
          ELSE LET handed == HandedOver(calls[i])
                   merged == MergedOf(calls[i].name)
               IN  /\ Len(merged) = Len(handed)
                   /\ \A k \in 1..Len(handed) : \E j \in 1..Len(merged) :
                         /\ merged[j].text = handed[k].text
                         /\ merged[j].cipher = cipher_label(calls[i].name, handed[k])

\* detect_atbash raised on its own (no injected fault), the three other
\* detectors ran, candidates of detectors before and after the failure were
\* merged, and a ranked result was returned
C10_Witness ==
    /\ op = "auto_done"
    /\ faults = {}
    /\ warnings = <<"Atbash">>
    /\ Len(calls) = 4
    /\ MergedOf("Caesar") # <<>>
    /\ MergedOf("Vigenere") # <<>>
    /\ results # <<>>
    /\ best_cipher = results[1].cipher


\* C11 as stated: Ensemble fallback: when every model yields zero
\* candidates, auto_detect returns a result whose cipher is "Unknown", whose
\* text is the original ciphertext unchanged, and whose score is 0.
C11_FallbackWithScore ==
    (op = "auto_done" /\ combined_results = <<>>)
        => /\ returned.best_cipher = <<"Unknown", <<>>>>
           /\ returned.best_text = plaintext
           /\ "score" \in DOMAIN returned
           /\ returned["score"] = 0

\* what holds of the fallback: the cipher is "Unknown", the text is the
\* ciphertext given, top_results is empty, and the dict has no other key
C11_FallbackWithoutScore ==
    (op = "auto_done" /\ combined_results = <<>>)
        => /\ returned.best_cipher = <<"Unknown", <<>>>>
           /\ returned.best_text = plaintext
           /\ returned.top_results = <<>>
           /\ DOMAIN returned = {"best_cipher", "best_text", "top_results"}

\* the five searches the ensemble is to run
FiveSearches == {"Caesar", "Atbash", "Affine", "Monoalphabetic", "Vigenere"}

CallsOf(name) == SelectSeq(calls, LAMBDA c : c.name = name)

\* C12 as stated: each call of auto_detect invokes all five searches
\* (Caesar, Atbash, Affine, monoalphabetic substitution, Vigenere), each
\* exactly once, all with the unmodified input ciphertext.
C12_AllFiveSearches ==
    op = "auto_done" =>
        \A name \in FiveSearches :
            /\ Len(CallsOf(name)) = 1
            /\ CallsOf(name)[1].ciphertext = plaintext

\* what holds: the four detectors of the list are each called exactly once
\* with the unmodified ciphertext; detect_substitution is never called
C12_FourSearches ==
    op = "auto_done" =>
        /\ \A i \in 1..Len(DetectorNames) :
              /\ Len(CallsOf(DetectorNames[i])) = 1
              /\ CallsOf(DetectorNames[i])[1].ciphertext = plaintext
        /\ CallsOf("Monoalphabetic") = <<>>

\* C13: Ensemble ranking: whenever the merged candidate list is non-empty,
\* top_results has at most top_n entries, is sorted by ensemble score
\* non-increasing, every candidate left out scores no higher than the last
\* one kept, and best_cipher/best_text are those of top_results[1], a
\* candidate of maximal ensemble score among all merged candidates.
C13_EnsembleRanking ==
    (op = "auto_done" /\ combined_results # <<>>)
        => LET top == returned.top_results
               kept == Len(top)
           IN  /\ kept = Min({top_n, Len(combined_results)})
               /\ \A i \in 1..kept : \A j \in i..kept : top[i].score >= top[j].score
               /\ top = Take(combined_results, kept)
               /\ \A j \in (kept + 1)..Len(combined_results) :
                     combined_results[j].score <= top[kept].score
               /\ returned.best_cipher = top[1].cipher
               /\ returned.best_text = top[1].text
               /\ \A j \in 1..Len(combined_results) :
                     combined_results[j].score <= top[1].score

\* candidates of three detectors merged, more of them than top_n, with
\* different ensemble scores, and the best one not the first one merged
C13_Witness ==
    /\ op = "auto_done"
    /\ top_n = 3
    /\ Len(combined_results) > 3
    /\ Len(results) = 3
    /\ results[1].score > results[3].score
    /\ results[1].cipher[1] # "Caesar"
    /\ MergedOf("Caesar") # <<>>


\* C14: the per-model time budget is advisory only: a detector that takes
\* longer than 10 seconds is never cancelled (its outcome is what the
\* detector returned or raised), the full candidate list it returns is
\* contributed to the ensemble, the detectors after it are still run, and
\* exceeding the budget only produces a warning.
C14_BudgetAdvisory ==
    /\ raised = ""
    /\ pending = <<>> => [i \in 1..Len(calls) |-> calls[i].name] = DetectorNames
    /\ overruns = SelectSeq([i \in 1..Len(calls) |-> calls[i].name],
                            LAMBDA name : name \in slow)
    /\ warnings = SelectSeq([i \in 1..Len(calls) |-> calls[i].name],
                            LAMBDA name : CallsOf(name)[1].outcome.exc # "")
    /\ \A i \in 1..Len(calls) :
          (calls[i].name \in slow /\ calls[i].outcome.exc = "")
            => LET handed == HandedOver(calls[i])
                   merged == MergedOf(calls[i].name)
               IN  /\ Len(merged) = Len(handed)
                   /\ \A k \in 1..Len(handed) : \E j \in 1..Len(merged) :
                         /\ merged[j].text = handed[k].text
                         /\ merged[j].cipher = cipher_label(calls[i].name, handed[k])

\* the Vigenere detector alone ran over the budget: it was reported, its
\* three candidates were merged, and the Affine detector ran after it
C14_Witness ==
    /\ op = "auto_done"
    /\ slow = {"Vigenere"}
    /\ overruns = <<"Vigenere">>
    /\ Len(MergedOf("Vigenere")) = EnsembleTopN
    /\ MergedOf("Affine") # <<>>
    /\ Len(calls) = 4


Blank(text) == \A i \in 1..Len(text) : iswhitespace(text[i])

\* C15: an empty ciphertext given to the ensemble yields an InvalidInput
\* (client) error, never a crash and never a ranked decryption result: the
\* request is answered with status 400, no detector is called and no
\* detector output is returned as best guess.
C15_EmptyCiphertextRejected ==
    (cipher_type \in AutoTypes /\ Blank(plaintext))
        => /\ op \in {"request", "responded"}
           /\ calls = <<>>
           /\ combined_results = <<>>
           /\ results = <<>>
           /\ op = "responded" => response = error_response(400, "Ciphertext is required")

\* an auto request whose ciphertext is two spaces, answered
C15_Witness ==
    /\ cipher_type = "auto"
    /\ plaintext = <<32, 32>>
    /\ op = "responded"
    /\ response.status = 400


\* a refined candidate without the fields the refiner added
Unrefined(r) == [shift |-> r.shift, text |-> r.text, score |-> r.score]

\* C16: refiner failure degrades gracefully: when the fluency scorer fails
\* for a candidate inside refine_with_transformer, no exception reaches the
\* caller, no candidate is dropped, and that candidate's final_score equals
\* its unrefined score; when it fails for all candidates the returned order
\* is the unrefined-score order.
C16_RefinerFailure ==
    op = "refine" =>
        LET given == calls[1].candidates
        IN  /\ raised = ""
            /\ Len(results) = Len(given)
            /\ \A i \in 1..Len(given) : \E j \in 1..Len(results) :
                  Unrefined(results[j]) = given[i]
            /\ \A j \in 1..Len(results) :
                  gpt2_fails(clean_text(results[j].text))
                    => /\ results[j].ai = 0
                       /\ results[j].final_score = results[j].score
            /\ fluency = "down" =>
                  [j \in 1..Len(results) |-> Unrefined(results[j])]
                    = sort_desc(given, keys_of(given, "score"))

\* all five candidates are within top_k: GPT-2 answered for one of them and
\* failed for another, which stayed in the list with its unrefined score
C16_Witness ==
    /\ op = "refine"
    /\ fluency = "flaky"
    /\ calls[1].top_k = 5
    /\ Len(results) = 5
    /\ \E i, j \in 1..Len(results) :
          /\ results[i].ai > 0
          /\ Len(clean_text(results[j].text)) >= 4
          /\ gpt2_fails(clean_text(results[j].text))
          /\ results[j].final_score = results[j].score

\* the base score detect_affine computes for the pair (a, b)
AffineBaseScore(pair) == hybrid_score(affine_decrypt(ciphertext, pair[1], pair[2]))

\* the pairs whose decryption detect_affine keeps: not blank, and scored
\* above the noise floor
AffineSurvivors ==
    {i \in 1..Len(affine_keys) :
        /\ strip_nonempty(affine_decrypt(ciphertext, affine_keys[i][1], affine_keys[i][2]))
        /\ AffineBaseScore(affine_keys[i]) > NoiseFloor}

AffineEnumeration(count) ==
    /\ Len(affine_keys) = count
    /\ Cardinality({affine_keys[i] : i \in 1..Len(affine_keys)}) = Len(affine_keys)
    /\ {affine_keys[i] : i \in 1..Len(affine_keys)} = valid_a \X (0..25)
    /\ \A i \in 1..Len(results) :
          /\ <<results[i].a, results[i].b>> \in valid_a \X (0..25)
          /\ results[i].text = affine_decrypt(ciphertext, results[i].a, results[i].b)
          /\ AffineBaseScore(<<results[i].a, results[i].b>>) > NoiseFloor
    /\ Len(results) = Min({top_n, Cardinality(AffineSurvivors)})

CipherLetters == Range(SelectSeq(ciphertext, isalpha))
\* the letters that occur more often than c, and as often as c
MoreFrequent(c) == {d \in CipherLetters : Count(ciphertext, d) > Count(ciphertext, c)}
AsFrequent(c) == {d \in CipherLetters : Count(ciphertext, d) = Count(ciphertext, c)}

\* the letters of order the ciphertext letter c may be mapped to: those at
\* the ranks c can have by decreasing frequency
AlignedWith(order, c) ==
    {order[j] : j \in (Cardinality(MoreFrequent(c)) + 1)
                        ..(Cardinality(MoreFrequent(c)) + Cardinality(AsFrequent(c)))}

\* C20: generate_freq_mapping maps the ciphertext letters, taken by
\* decreasing frequency, to the English letters by decreasing English
\* frequency (the most frequent to E, the next to T, ...), and the mapping
\* has all 26 letters as keys
C20_FrequencyAlignment ==
    op = "generate_freq_mapping" =>
        /\ \A c \in CipherLetters : key[c] \in AlignedWith(english_by_frequency, c)
        /\ UpperLetters \subseteq DOMAIN key

\* what the code does: the ciphertext letters, by decreasing frequency, are
\* mapped to A, B, C, ...; for an upper-case ciphertext the mapping is a
\* permutation of the 26 letters
C20_AlphabeticalAlignment ==
    op = "generate_freq_mapping" =>
        /\ \A c \in CipherLetters : key[c] \in AlignedWith(ALPHABET, c)
        /\ CipherLetters \subseteq UpperLetters =>
            /\ DOMAIN key = UpperLetters
            /\ {key[c] : c \in DOMAIN key} = UpperLetters


\* a call of simulated_annealing is in progress or has returned
InRun == sa.phase \in {"loop", "returned"}
\* the objective of the initial mapping
InitialObjective == objective(apply_mapping_to_text(sa.ctext, sa.initial_map))

\* the best state dominates the current and the initial one
BestDominates ==
    InRun =>
        /\ sa.best_score >= sa.current_score
        /\ sa.best_score >= InitialObjective

RECURSIVE Power(_, _)
Power(x, n) == IF n = 0 THEN 1 ELSE x * Power(x, n - 1)

\* the temperature is below 1e-4
BelowThreshold(T) == T.num * TempFloorDen < T.den

\* the schedule of a run: after i iterations the temperature is
\* init_temp * cooling^i, at most max_iters iterations are made, the loop
\* goes on while the temperature has not fallen below 1e-4 and iterations
\* are left, and it has stopped once one of the two is the case
Schedule ==
    InRun =>
        /\ sa.T.num = Power(sa.cooling[1], sa.i)
        /\ sa.T.den = Power(sa.cooling[2], sa.i)
        /\ sa.i <= sa.max_iters
        /\ sa.phase = "loop" => ~BelowThreshold(sa.T) /\ sa.i < sa.max_iters
        /\ sa.phase = "returned" => BelowThreshold(sa.T) \/ sa.i = sa.max_iters

\* an iteration lowers the temperature
Cooled == sa.phase = "loop" => sa'.T.num * sa.T.den < sa.T.num * sa'.T.den

\* a call of detect_substitution is in progress
Searching == ds.phase \in {"restarts", "annealing", "collected"}

\* C19 (as stated): the schedule of every run, and detect_substitution
\* finishes after exactly `restarts` annealing runs
C19_ExactlyRestartsRuns ==
    /\ Schedule
    /\ ds.phase = "returned" => ds.runs = ds.restarts

\* C19 (amended): every simulated-annealing run terminates: the temperature
\* is multiplied by the cooling factor exactly once per iteration (strictly
\* decreasing), the loop makes at most max_iters iterations and stops at the
\* first iteration after which the temperature is below 1e-4;
\* detect_substitution finishes, after exactly `restarts` annealing runs if
\* the cleaned ciphertext has at least 6 letters and after none otherwise
C19_Termination ==
    /\ [](/\ Schedule
          /\ ds.phase = "returned" =>
                ds.runs = IF Len(upper_letters_of(ciphertext)) >= MinSubstLetters
                          THEN ds.restarts ELSE 0)
    /\ [][Cooled]_vars
    /\ (sa.phase = "loop") ~> (sa.phase = "returned")
    /\ Searching ~> (ds.phase = "returned")

\* detect_substitution has finished after two restarts, each run stopped
\* by its iteration cap
C19_Witness ==
    /\ ds.phase = "returned"
    /\ ds.restarts = 2
    /\ ds.runs = 2
    /\ sa.phase = "returned"
    /\ sa.i = sa.max_iters
    /\ sa.i = 2


\* the mapping is a permutation of the alphabet
Bijection(mapping) ==
    /\ DOMAIN mapping = UpperLetters
    /\ {mapping[c] : c \in DOMAIN mapping} = UpperLetters

\* detect_substitution is in its restart loop
Restarting == ds.phase \in {"restarts", "annealing", "collected"}

\* C21: every initial mapping detect_substitution passes to
\* simulated_annealing (frequency seed, pattern seed laid over the
\* frequency seed, random seed) is a permutation of the 26 letters, a
\* pattern seed that conflicts with the frequency seed being discarded, and
\* every mapping the annealing visits or returns is a permutation too
C21_KeysArePermutations ==
    /\ Restarting => \A i \in 1..Len(ds.uniq_inits) : Bijection(ds.uniq_inits[i])
    /\ ds.phase = "annealing" =>
        /\ Bijection(sa.initial_map)
        /\ Bijection(sa.current_map)
        /\ Bijection(sa.best_map)

\* what holds: the frequency seed and its shuffles are permutations, and the
\* swaps of the annealing keep a permutation a permutation
C21_SwapsKeepPermutations ==
    /\ Restarting =>
        /\ Bijection(ds.freq_map)
        /\ \A m \in shuffles_of(ds.freq_map) : Bijection(m)
    /\ InRun /\ Bijection(sa.initial_map) =>
        /\ Bijection(sa.current_map)
        /\ Bijection(sa.best_map)


\* likely_key_lengths has returned
Estimated == dv.phase = "lengths"

\* the letters Kasiski examination works on
Examined == clean_letters(dv.cipher)

SameSubstring(text, L, i, j) == SubSeq(text, i, i + L - 1) = SubSeq(text, j, j + L - 1)

\* a substring of length 3-5 occurs twice
HasRepeat(text) ==
    \E L \in 3..5 : \E i, j \in 1..(Len(text) - L + 1) :
        i < j /\ SameSubstring(text, L, i, j)

\* the pairs of consecutive occurrences of a substring of length 3-5
ConsecutiveRepeats(text) ==
    {p \in (3..5) \X (1..Len(text)) \X (1..Len(text)) :
        /\ p[2] < p[3]
        /\ p[3] <= Len(text) - p[1] + 1
        /\ SameSubstring(text, p[1], p[2], p[3])
        /\ \A k \in (p[2] + 1)..(p[3] - 1) : ~SameSubstring(text, p[1], p[2], k)}

\* for each g in 1..max_len, the number of spacings between consecutive
\* repeats that g divides
VoteCounts(text, max_len) ==
    The({ [g \in 1..max_len |-> Cardinality({p \in reps : (p[3] - p[2]) % g = 0})] \o <<>> :
          reps \in {ConsecutiveRepeats(text)} })

\* the lengths with at least one vote
Voted(votes) == {g \in 2..Len(votes) : votes[g] > 0}

\* for each m in 1..max_len, the average index of coincidence of the m
\* columns, times ICScale * ICScale
AverageICs(text, max_len) ==
    [m \in 1..max_len |->
        LET cols == Columns(text, m)
        IN  SeqSum([i \in 1..m |-> index_of_coincidence(cols[i])], 1) * (ICScale \div m)]
    \o <<>>

\* lengths holds the (at most 5) members of S that rank highest by rank
RankedBy(lengths, S, rank) ==
    /\ Len(lengths) = (IF Cardinality(S) < 5 THEN Cardinality(S) ELSE 5)
    /\ Range(lengths) \subseteq S
    /\ \A a, b \in 1..Len(lengths) : a < b => rank[lengths[a]] >= rank[lengths[b]]
    /\ \A g \in S \ Range(lengths) :
        \A a \in 1..Len(lengths) : rank[lengths[a]] >= rank[g]

\* at most 5 distinct lengths, all within 1..max_len
FewLengths(lengths, max_len) ==
    /\ Len(lengths) <= 5
    /\ \A a, b \in 1..Len(lengths) : a # b => lengths[a] # lengths[b]
    /\ Range(lengths) \subseteq 1..max_len

\* C22: key-length estimation uses the index-of-coincidence fallback exactly
\* when Kasiski examination finds no repeated substring of length 3-5: when
\* the ciphertext has a repeated substring, likely_key_lengths returns
\* lengths ranked by Kasiski divisibility votes (each in 2..max_len); in
\* both cases it returns at most 5 distinct lengths, all within 1..max_len
C22_FallbackIffNoRepeat ==
    Estimated =>
        \A text \in {Examined} :
        \A votes \in {VoteCounts(text, dv.max_len)} :
        \A ics \in {AverageICs(text, dv.max_len)} :
            /\ HasRepeat(text) => RankedBy(dv.lengths, Voted(votes), votes)
            /\ ~HasRepeat(text) => RankedBy(dv.lengths, 1..dv.max_len, ics)
            /\ FewLengths(dv.lengths, dv.max_len)

\* C22 (amended): the fallback is used exactly when Kasiski examination
\* yields no vote, that is when no spacing between consecutive repeats of a
\* substring of length 3-5 is divisible by a length in 2..max_len; with a
\* vote the lengths are ranked by votes (each in 2..max_len, each voted
\* for), without one by average index of coincidence
C22_FallbackIffNoVote ==
    Estimated =>
        \A text \in {Examined} :
        \A votes \in {VoteCounts(text, dv.max_len)} :
        \A ics \in {AverageICs(text, dv.max_len)} :
            /\ Voted(votes) # {} => RankedBy(dv.lengths, Voted(votes), votes)
            /\ Voted(votes) = {} => RankedBy(dv.lengths, 1..dv.max_len, ics)
            /\ FewLengths(dv.lengths, dv.max_len)

\* a call whose votes put a larger length ahead of a smaller one
C22_Witness ==
    /\ dv.phase = "lengths"
    /\ HasRepeat(Examined)
    /\ Len(dv.lengths) >= 2
    /\ dv.lengths[1] > dv.lengths[2]
    /\ VoteCounts(Examined, dv.max_len)[dv.lengths[1]]
        > VoteCounts(Examined, dv.max_len)[dv.lengths[2]]

\* detect_vigenere, run step by step, returns what the function returns
VigenereRunAgrees ==
    dv.phase = "returned" => results = detect_vigenere(dv.cipher, dv.max_len, dv.top_n)

\* detect_vigenere has entered its local refinement
Refining == dv.phase \in {"refine", "returned"}

\* the candidates whose refinement is complete
Refined == 1..Len(dv.refined_results)

\* every candidate has been refined
AllRefined == Refining /\ dv.r > Len(dv.results)

\* the score of the key with letter i moved by delta
TrialScore(k, i, delta) == hybrid_score(vigenere_decrypt(dv.cipher, tweak(k, i, delta)))

\* the single-letter changes of k that score strictly above score
Improving(k, score) ==
    {c \in (1..Len(k)) \X {-1, 1} : TrialScore(k, c[1], c[2]) > score}

\* C23: the local refinement keeps a +/-1 change of a key letter only if it
\* strictly improves the score: for every candidate the refined score is
\* >= the score of the rotated key it started from, the key is unchanged
\* when no single-letter change scores strictly higher, and the reported
\* text is the decryption of the ciphertext under the reported key
C23_StrictImprovementOnly ==
    /\ Refining =>
        /\ dv.r <= Len(dv.results) => dv.best_score >= dv.results[dv.r].score
        /\ \A c \in Refined :
            /\ dv.refined_results[c].score >= dv.results[c].score
            /\ dv.refined_results[c].key # dv.results[c].key =>
                dv.refined_results[c].score > dv.results[c].score
            /\ dv.refined_results[c].text
                = vigenere_decrypt(dv.cipher, dv.refined_results[c].key)
    /\ AllRefined =>
        \A c \in Refined :
            Improving(dv.results[c].key, dv.results[c].score) = {} =>
                dv.refined_results[c].key = dv.results[c].key
    /\ dv.phase = "returned" =>
        \A c \in 1..Len(results) :
            results[c].text = vigenere_decrypt(dv.cipher, results[c].key)

\* one candidate kept a strictly better key, another kept its key although
\* a single-letter change scored the same
C23_Witness ==
    /\ dv.phase = "returned"
    /\ results # <<>>
    /\ \E c \in Refined :
        /\ dv.refined_results[c].key # dv.results[c].key
        /\ dv.refined_results[c].score > dv.results[c].score
    /\ \E c \in Refined :
        /\ dv.refined_results[c].key = dv.results[c].key
        /\ \E i \in 1..Len(dv.results[c].key), delta \in {-1, 1} :
            TrialScore(dv.results[c].key, i, delta) = dv.results[c].score

\* the positions where two keys differ
Differing(k1, k2) == {j \in 1..Len(k1) : k1[j] # k2[j]}

\* k2 is k1, or k1 with one letter moved by +/-1 mod 26
OneStepFrom(k1, k2) ==
    /\ Len(k1) = Len(k2)
    /\ Cardinality(Differing(k1, k2)) <= 1
    /\ \A j \in Differing(k1, k2) : (k2[j] - k1[j]) % 26 \in {1, 25}

\* a trial of the candidate in hand has been made
Tried == dv.phase = "refine" /\ dv.r <= Len(dv.results) /\ (dv.i > 1 \/ dv.delta = 1)

\* C24: every trial key of the local refinement is derived from the
\* original rotated key, not from the best key found so far, so kept
\* improvements do not accumulate: the refined key of each candidate
\* differs from its rotated key in at most one position, and there by
\* exactly +/-1 mod 26
C24_NoAccumulation ==
    Refining =>
        /\ Tried =>
            /\ OneStepFrom(dv.results[dv.r].key, dv.new_key)
            /\ dv.new_key # dv.results[dv.r].key
        /\ dv.r <= Len(dv.results) => OneStepFrom(dv.results[dv.r].key, dv.best_key)
        /\ \A c \in Refined : OneStepFrom(dv.results[c].key, dv.refined_results[c].key)

\* a candidate for which changes at two different positions each scored
\* strictly above the rotated key, and one change was kept
C24_Witness ==
    /\ AllRefined
    /\ \E c \in Refined :
        /\ dv.refined_results[c].key # dv.results[c].key
        /\ \E a, b \in Improving(dv.results[c].key, dv.results[c].score) : a[1] # b[1]

\* the calls of the detector that raised
RaisedCalls(name) == SelectSeq(CallsOf(name), LAMBDA c : c.outcome.exc # "")

\* the detector was called and raised
DetectorRaised(name) == RaisedCalls(name) # <<>>

\* min(top_n, 26)
CaesarCount == IF EnsembleTopN < AlphabetSize THEN EnsembleTopN ELSE AlphabetSize

\* auto_detect returns the fallback only when both the Caesar and the
\* Atbash detector raised; otherwise top_results is not empty
FallbackOnlyThroughFailures ==
    op = "auto_done" =>
        /\ returned.best_cipher = <<"Unknown", <<>>>> =>
            DetectorRaised("Caesar") /\ DetectorRaised("Atbash")
        /\ ~(DetectorRaised("Caesar") /\ DetectorRaised("Atbash")) =>
            returned.top_results # <<>>

\* C25: the "Unknown" fallback is reachable only through failures:
\* detect_caesar returns min(top_n, 26) candidates and detect_atbash returns
\* one candidate for every input string, so auto_detect returns the
\* fallback only in executions where both the Caesar and the Atbash
\* detector raise; in every other execution top_results is non-empty
C25_FallbackOnlyThroughFailures ==
    /\ \A i \in 1..Len(calls) :
        /\ (calls[i].name = "Caesar" /\ "Caesar" \notin faults) =>
            /\ calls[i].outcome.exc = ""
            /\ Len(calls[i].outcome.value) = CaesarCount
        /\ (calls[i].name = "Atbash" /\ "Atbash" \notin faults) =>
            /\ calls[i].outcome.exc = ""
            /\ Len(calls[i].outcome.value) = 1
    /\ FallbackOnlyThroughFailures

\* what holds: a detect_atbash that does not raise returns one candidate,
\* and the fallback is returned only when both detectors raised
C25_FallbackOnlyWhenBothRaise ==
    /\ \A i \in 1..Len(calls) :
        /\ (calls[i].name = "Caesar" /\ "Caesar" \notin faults) =>
            /\ calls[i].outcome.exc = ""
            /\ Len(calls[i].outcome.value) = CaesarCount
        /\ (calls[i].name = "Atbash" /\ calls[i].outcome.exc = "") =>
            Len(calls[i].outcome.value) = 1
    /\ FallbackOnlyThroughFailures

=============================================================================
